---------------------------- MODULE Spec2Model ----------------------------
(***************************************************************************)
(* Bus ticket booking system: the booking repository (localStorage with an *)
(* in-memory fallback), the identifier generator, the validation rules and *)
(* the BookingProvider / BookingForm state machine that drives them.       *)
(***************************************************************************)
EXTENDS Integers, Sequences, FiniteSets, TLC

(***************************************************************************)
(* Bounds of the model.                                                    *)
(***************************************************************************)
MaxSeq == 2          \* booking numbers 1..MaxSeq: no booking is created beyond MaxSeq
MaxCreate == 1       \* bookings the form creates on top of what the page found
MaxTabSaves == 2     \* each of the two callers saves at most MaxTabSaves bookings
MaxExisting == 7     \* validation is given 0..MaxExisting seats already booked
MaxBoarding == 4     \* the boarding page lists at most MaxBoarding bookings
MaxGroups == 7       \* the summary is computed for at most MaxGroups bookings
MaxClickSeats == 7   \* the user clicks the first MaxClickSeats seats of the bus

(***************************************************************************)
(* Program constants (utils/constants.js).                                 *)
(***************************************************************************)
SEAT_ROWS == 15
SEAT_COLUMNS == <<"A", "B", "C", "D">>
MAX_SEATS_PER_BOOKING == 6
BOOKING_ID_PREFIX == "BK"
BOARDING_STATUS == [NOT_BOARDED |-> "not_boarded", BOARDED |-> "boarded"]

(***************************************************************************)
(* Data.  A calendar date "YYYY-MM-DD" is the record [y, m, d]; a seat     *)
(* identifier such as "A1" is the record [column, row]; a mobile number is *)
(* the sequence of its characters.                                         *)
(***************************************************************************)
Today == [y |-> 2026, m |-> 11, d |-> 1]
Tomorrow == [y |-> 2026, m |-> 11, d |-> 2]
Dates == {Today, Tomorrow}

Seat(c, r) == [column |-> c, row |-> r]
A1 == Seat("A", 1)
B1 == Seat("B", 1)

Mobile1 == <<"9", "8", "7", "6", "5", "4", "3", "2", "1", "0">>
Mobile2 == <<"6", "0", "0", "0", "0", "0", "0", "0", "0", "1">>

Digits == <<"0", "1", "2", "3", "4", "5", "6", "7", "8", "9">>

Max(a, b) == IF a > b THEN a ELSE b

(***************************************************************************)
(* Number.prototype.toString, String.prototype.padStart(6, '0') and        *)
(* parseInt(s, 10) on strings of decimal digits.                           *)
(***************************************************************************)
RECURSIVE toString(_)
toString(n) == IF n < 10 THEN <<Digits[n + 1]>>
               ELSE Append(toString(n \div 10), Digits[(n % 10) + 1])

RECURSIVE padStart(_, _, _)
padStart(s, len, c) == IF Len(s) >= len THEN s ELSE padStart(<<c>> \o s, len, c)

DigitValue(c) == CHOOSE k \in 0..9 : Digits[k + 1] = c

RECURSIVE parseInt(_)
parseInt(s) == IF s = <<>> THEN 0
               ELSE 10 * parseInt(SubSeq(s, 1, Len(s) - 1)) + DigitValue(s[Len(s)])

\* date.replace(/-/g, ''): the eight digits of the date, as a number
datePart(date) == date.y * 10000 + date.m * 100 + date.d

\* a booking id `BK-<datePart>-<sequenceNumber>` as its three segments
BookingIdOf(date, n) ==
    [prefix |-> BOOKING_ID_PREFIX, datePart |-> datePart(date),
     sequenceNumber |-> padStart(toString(n), 6, "0")]

\* parseInt(bookingId.split('-').pop(), 10)
bookingNumberOf(bookingId) == parseInt(bookingId.sequenceNumber)

(***************************************************************************)
(* The store and the persisted item.                                       *)
(***************************************************************************)
EmptyStore == [bookings |-> <<>>, lastBookingNumber |-> 0]

\* values of localStorage['busBookings']: no item, the JSON text of a store,
\* a JSON text of some other shape, or a text that is not JSON at all
AbsentItem == [kind |-> "absent", data |-> EmptyStore]
MalformedItem == [kind |-> "malformed", data |-> EmptyStore]
UnparseableItem == [kind |-> "unparseable", data |-> EmptyStore]
JSONstringify(data) == [kind |-> "json", data |-> data]

VARIABLES
    localStorageAvailable,  \* _localStorageAvailable, the cached probe result
    localStorageItem,       \* localStorage['busBookings']
    inMemoryStore,          \* _inMemoryStore
    result,                 \* what the last repository operation returned
    now,                    \* the clock read by new Date()
    selectedDate,           \* BookingProvider state
    formData,
    selectedSeats,
    editingBooking,
    bookings,
    pendingSubmit,          \* the handleCreateBooking closure held by setTimeout
    tabs,                   \* independent callers sharing the persisted item
    writes,                 \* history: number of writes of the persisted item
    deletedIds,             \* history: ids cancelled through handleDeleteBooking
    lastCreated,            \* history: number of the last created booking
    created                 \* history: id and bookingTime of the bookings the page created

storeVars == <<localStorageAvailable, localStorageItem, inMemoryStore>>
uiVars == <<selectedDate, formData, selectedSeats, editingBooking, bookings, pendingSubmit>>
histVars == <<writes, deletedIds, lastCreated, created>>
vars == <<storeVars, result, now, uiVars, tabs, histVars>>

\* variant: the parsed value is returned without the check of its shape
getBookingsFromStorage_noShapeCheck(available, item, memory, readThrows) ==
    IF ~available THEN memory
    ELSE IF readThrows THEN EmptyStore
    ELSE IF item.kind = "absent" THEN EmptyStore
    ELSE IF item.kind = "unparseable" THEN EmptyStore
    ELSE item.data

(***************************************************************************)
(* getBookingsFromStorage.  readThrows: localStorage.getItem throws.       *)
(***************************************************************************)
getBookingsFromStorage(available, item, memory, readThrows) ==
    IF ~available THEN memory
    ELSE IF readThrows THEN EmptyStore
    ELSE IF item.kind = "absent" THEN EmptyStore
    ELSE IF item.kind = "unparseable" THEN EmptyStore
    ELSE IF item.kind = "malformed" THEN EmptyStore
    ELSE item.data

\* the item after getBookingsFromStorage: an unexpected format is removed
itemAfterLoad(available, item, readThrows) ==
    IF available /\ ~readThrows /\ item.kind = "malformed" THEN AbsentItem ELSE item

\* variant: without localStorage the call reports success and stores nothing
saveBookingsToStorage_memoryKept(available, item, memory, data, writeThrows) ==
    IF ~available THEN [success |-> TRUE, item |-> item, memory |-> memory]
    ELSE IF writeThrows THEN [success |-> FALSE, item |-> item, memory |-> memory]
    ELSE [success |-> TRUE, item |-> JSONstringify(data), memory |-> memory]

\* variant: the rejected write leaves the new text behind
saveBookingsToStorage_partialWrite(available, item, memory, data, writeThrows) ==
    IF ~available THEN [success |-> TRUE, item |-> item, memory |-> data]
    ELSE [success |-> ~writeThrows, item |-> JSONstringify(data), memory |-> memory]

(***************************************************************************)
(* saveBookingsToStorage.  writeThrows: localStorage.setItem throws.       *)
(***************************************************************************)
saveBookingsToStorage(available, item, memory, data, writeThrows) ==
    IF ~available THEN [success |-> TRUE, item |-> item, memory |-> data]
    ELSE IF writeThrows THEN [success |-> FALSE, item |-> item, memory |-> memory]
    ELSE [success |-> TRUE, item |-> JSONstringify(data), memory |-> memory]

\* bookings.findIndex(b => b.bookingId === bookingId), 1-based, 0 for none
findIndex(bs, bookingId) ==
    IF \E i \in 1..Len(bs) : bs[i].bookingId = bookingId
    THEN CHOOSE i \in 1..Len(bs) :
            /\ bs[i].bookingId = bookingId
            /\ \A j \in 1..(i - 1) : bs[j].bookingId # bookingId
    ELSE 0

\* variant: an update keeps the boardingStatus the stored record has
upsert_keepsStatus(data, booking) ==
    LET existingIndex == findIndex(data.bookings, booking.bookingId)
        bookingNumber == bookingNumberOf(booking.bookingId)
    IN  IF existingIndex > 0
        THEN [data EXCEPT !.bookings[existingIndex] =
                 [booking EXCEPT !.boardingStatus =
                                     data.bookings[existingIndex].boardingStatus]]
        ELSE [bookings |-> Append(data.bookings, booking),
              lastBookingNumber |-> Max(data.lastBookingNumber, bookingNumber)]

\* variant: a new booking is stored over the last element instead of pushed
upsert_overwriteLast(data, booking) ==
    LET existingIndex == findIndex(data.bookings, booking.bookingId)
        bookingNumber == bookingNumberOf(booking.bookingId)
    IN  IF existingIndex > 0
        THEN [data EXCEPT !.bookings[existingIndex] = booking]
        ELSE [bookings |-> IF data.bookings = <<>> THEN <<booking>>
                           ELSE [data.bookings EXCEPT ![Len(data.bookings)] = booking],
              lastBookingNumber |-> Max(data.lastBookingNumber, bookingNumber)]

\* variant: every booking is pushed, an existing id is not looked for
upsert_alwaysPush(data, booking) ==
    [bookings |-> Append(data.bookings, booking),
     lastBookingNumber |-> Max(data.lastBookingNumber, bookingNumberOf(booking.bookingId))]

\* variant: a pushed booking's number is stored without comparing it
upsert_noCompare(data, booking) ==
    LET existingIndex == findIndex(data.bookings, booking.bookingId)
    IN  IF existingIndex > 0
        THEN [data EXCEPT !.bookings[existingIndex] = booking]
        ELSE [bookings |-> Append(data.bookings, booking),
              lastBookingNumber |-> bookingNumberOf(booking.bookingId)]

\* the read-modify part of saveBooking: replace in place, or push and advance
upsert(data, booking) ==
    LET existingIndex == findIndex(data.bookings, booking.bookingId)
        bookingNumber == bookingNumberOf(booking.bookingId)
    IN  IF existingIndex > 0
        THEN [data EXCEPT !.bookings[existingIndex] = booking]
        ELSE [bookings |-> Append(data.bookings, booking),
              lastBookingNumber |->
                  IF bookingNumber > data.lastBookingNumber
                  THEN bookingNumber ELSE data.lastBookingNumber]

\* saveBooking: the returned result and the storage it leaves
saveBooking(available, item, memory, booking, readThrows, writeThrows) ==
    LET data == getBookingsFromStorage(available, item, memory, readThrows)
        loaded == itemAfterLoad(available, item, readThrows)
        existingIndex == findIndex(data.bookings, booking.bookingId)
        newData == upsert(data, booking)
        \* in-memory: push / index assignment act on the array the store holds
        touched == IF available THEN memory
                   ELSE [memory EXCEPT !.bookings = newData.bookings]
        saved == saveBookingsToStorage(available, loaded, touched, newData, writeThrows)
    IN  [success |-> saved.success,
         updated |-> existingIndex > 0,
         booking |-> booking,
         item |-> saved.item,
         memory |-> saved.memory]

\* variant: the removal also sets lastBookingNumber to the count of bookings left
deleteBooking_recomputeLast(available, item, memory, bookingId, readThrows, writeThrows) ==
    LET data == getBookingsFromStorage(available, item, memory, readThrows)
        loaded == itemAfterLoad(available, item, readThrows)
        kept == SelectSeq(data.bookings, LAMBDA b : b.bookingId # bookingId)
        newData == [bookings |-> kept, lastBookingNumber |-> Len(kept)]
        saved == saveBookingsToStorage(available, loaded, memory, newData, writeThrows)
    IN  IF Len(kept) = Len(data.bookings)
        THEN [success |-> FALSE, found |-> FALSE, item |-> loaded, memory |-> memory]
        ELSE [success |-> saved.success, found |-> TRUE,
              item |-> saved.item, memory |-> saved.memory]

\* deleteBooking
deleteBooking(available, item, memory, bookingId, readThrows, writeThrows) ==
    LET data == getBookingsFromStorage(available, item, memory, readThrows)
        loaded == itemAfterLoad(available, item, readThrows)
        kept == SelectSeq(data.bookings, LAMBDA b : b.bookingId # bookingId)
        newData == [data EXCEPT !.bookings = kept]
        saved == saveBookingsToStorage(available, loaded, memory, newData, writeThrows)
    IN  IF Len(kept) = Len(data.bookings)
        THEN [success |-> FALSE, found |-> FALSE, item |-> loaded, memory |-> memory]
        ELSE [success |-> saved.success, found |-> TRUE,
              item |-> saved.item, memory |-> saved.memory]

\* variant: the updated booking is taken out and pushed to the end
updateBoardingStatus_movesToEnd(available, item, memory, bookingId, status, readThrows, writeThrows) ==
    LET data == getBookingsFromStorage(available, item, memory, readThrows)
        loaded == itemAfterLoad(available, item, readThrows)
        i == findIndex(data.bookings, bookingId)
        newData == [data EXCEPT !.bookings =
                       Append(SelectSeq(data.bookings, LAMBDA b : b.bookingId # bookingId),
                              [data.bookings[i] EXCEPT !.boardingStatus = status])]
        touched == IF available \/ i = 0 THEN memory
                   ELSE [memory EXCEPT !.bookings = newData.bookings]
        saved == saveBookingsToStorage(available, loaded, touched, newData, writeThrows)
    IN  IF i = 0
        THEN [success |-> FALSE, found |-> FALSE, item |-> loaded, memory |-> memory]
        ELSE [success |-> saved.success, found |-> TRUE,
              item |-> saved.item, memory |-> saved.memory]

\* updateBoardingStatus
updateBoardingStatus(available, item, memory, bookingId, status, readThrows, writeThrows) ==
    LET data == getBookingsFromStorage(available, item, memory, readThrows)
        loaded == itemAfterLoad(available, item, readThrows)
        i == findIndex(data.bookings, bookingId)
        newData == [data EXCEPT !.bookings[i].boardingStatus = status]
        \* in-memory: the booking object the store holds is assigned to
        touched == IF available \/ i = 0 THEN memory
                   ELSE [memory EXCEPT !.bookings = newData.bookings]
        saved == saveBookingsToStorage(available, loaded, touched, newData, writeThrows)
    IN  IF i = 0
        THEN [success |-> FALSE, found |-> FALSE, item |-> loaded, memory |-> memory]
        ELSE [success |-> saved.success, found |-> TRUE,
              item |-> saved.item, memory |-> saved.memory]

\* getNextBookingNumber and generateBookingId
getNextBookingNumber(available, item, memory, readThrows) ==
    getBookingsFromStorage(available, item, memory, readThrows).lastBookingNumber + 1

generateBookingId(available, item, memory, date, readThrows) ==
    BookingIdOf(date, getNextBookingNumber(available, item, memory, readThrows))

\* clearAllBookings removes the persisted item
clearAllBookings(item) == AbsentItem

(***************************************************************************)
(* Read projections.                                                       *)
(***************************************************************************)
getBookingsByDate(store, date) ==
    SelectSeq(store.bookings, LAMBDA b : b.travelDate = date)

getBookingsByMobileAndDate(store, mobileNumber, date, excludeBookingId) ==
    SelectSeq(store.bookings,
              LAMBDA b : /\ b.mobileNumber = mobileNumber
                         /\ b.travelDate = date
                         /\ b.bookingId # excludeBookingId)

RECURSIVE flatSeats(_)
flatSeats(bs) == IF bs = <<>> THEN <<>> ELSE Head(bs).seats \o flatSeats(Tail(bs))

getBookedSeatsByDate(store, date, excludeBookingId) ==
    flatSeats(SelectSeq(getBookingsByDate(store, date),
                        LAMBDA b : b.bookingId # excludeBookingId))

RECURSIVE sumSeats(_)
sumSeats(bs) == IF bs = <<>> THEN 0 ELSE Len(Head(bs).seats) + sumSeats(Tail(bs))

getSeatsCountByMobileAndDate(store, mobileNumber, date, excludeBookingId) ==
    sumSeats(getBookingsByMobileAndDate(store, mobileNumber, date, excludeBookingId))

\* the store every operation of this process currently sees
CurrentStore == getBookingsFromStorage(localStorageAvailable, localStorageItem,
                                       inMemoryStore, FALSE)

(***************************************************************************)
(* Initial values of the BookingProvider state, of the callers and of the  *)
(* history variables.                                                      *)
(***************************************************************************)
\* null, where a bookingId or a booking is expected
NoId == [prefix |-> "none", datePart |-> 0, sequenceNumber |-> <<>>]
NoBooking == [bookingId |-> NoId]
NoPending == [armed |-> FALSE]
NoResult == [op |-> "none", success |-> FALSE]
InitialFormData == [travelDate |-> Today, mobileNumber |-> <<>>]

StoreInit ==
    /\ localStorageAvailable \in BOOLEAN
    /\ localStorageItem = AbsentItem
    /\ inMemoryStore = EmptyStore
    /\ result = NoResult
    /\ now = 0

UIInit ==
    /\ selectedDate = Today
    /\ formData = InitialFormData
    /\ selectedSeats = <<>>
    /\ editingBooking = NoBooking
    /\ bookings = <<>>
    /\ pendingSubmit = NoPending

HistInit ==
    /\ writes = 0
    /\ deletedIds = {}
    /\ lastCreated = 0
    /\ created = {}

(***************************************************************************)
(* The repository called directly (utils/localStorage API), on a           *)
(* persistence surface that may throw on a read or reject a write.         *)
(***************************************************************************)
RepoSeatLists == {<<A1>>, <<A1, B1>>}
RepoDates == {Today}
RepoIds == {BookingIdOf(d, n) : d \in RepoDates, n \in 1..MaxSeq}
RepoBookings ==
    {[bookingId |-> BookingIdOf(d, n), travelDate |-> d, mobileNumber |-> Mobile1,
      seats |-> s, bookingTime |-> 0, boardingStatus |-> BOARDING_STATUS.NOT_BOARDED] :
        d \in RepoDates, n \in 1..MaxSeq, s \in RepoSeatLists}

\* a throwing read or a rejected write needs a localStorage that was detected
Faults == IF localStorageAvailable THEN BOOLEAN ELSE {FALSE}

RepoSaveBooking(booking, readThrows, writeThrows) ==
    LET r == saveBooking(localStorageAvailable, localStorageItem, inMemoryStore,
                         booking, readThrows, writeThrows)
    IN  /\ localStorageItem' = r.item
        /\ inMemoryStore' = r.memory
        /\ result' = [op |-> "saveBooking", success |-> r.success]
        /\ UNCHANGED <<localStorageAvailable, now, uiVars, tabs, writes, deletedIds, lastCreated, created>>

\* generateBookingId followed by saveBooking, as handleCreateBooking creates
RepoCreateBooking(date, seats, readThrows, writeThrows) ==
    LET bookingId == generateBookingId(localStorageAvailable, localStorageItem,
                                       inMemoryStore, date, FALSE)
        healed == itemAfterLoad(localStorageAvailable, localStorageItem, FALSE)
        booking == [bookingId |-> bookingId, travelDate |-> date,
                    mobileNumber |-> Mobile1, seats |-> seats, bookingTime |-> now,
                    boardingStatus |-> BOARDING_STATUS.NOT_BOARDED]
        r == saveBooking(localStorageAvailable, healed, inMemoryStore,
                         booking, readThrows, writeThrows)
    IN  /\ bookingNumberOf(bookingId) <= MaxSeq
        /\ localStorageItem' = r.item
        /\ inMemoryStore' = r.memory
        /\ result' = [op |-> "createBooking", success |-> r.success]
        /\ lastCreated' = IF r.success THEN bookingNumberOf(bookingId) ELSE lastCreated
        /\ UNCHANGED <<localStorageAvailable, now, uiVars, tabs, writes, deletedIds, created>>

RepoDeleteBooking(bookingId, readThrows, writeThrows) ==
    LET r == deleteBooking(localStorageAvailable, localStorageItem, inMemoryStore,
                           bookingId, readThrows, writeThrows)
    IN  /\ localStorageItem' = r.item
        /\ inMemoryStore' = r.memory
        /\ result' = [op |-> "deleteBooking", success |-> r.success]
        /\ UNCHANGED <<localStorageAvailable, now, uiVars, tabs, histVars>>

RepoUpdateBoardingStatus(bookingId, status, readThrows, writeThrows) ==
    LET r == updateBoardingStatus(localStorageAvailable, localStorageItem,
                                  inMemoryStore, bookingId, status,
                                  readThrows, writeThrows)
    IN  /\ localStorageItem' = r.item
        /\ inMemoryStore' = r.memory
        /\ result' = [op |-> "updateBoardingStatus", success |-> r.success]
        /\ UNCHANGED <<localStorageAvailable, now, uiVars, tabs, writes, deletedIds, lastCreated, created>>

RepoGenerateBookingId(date, readThrows) ==
    /\ localStorageItem' = itemAfterLoad(localStorageAvailable, localStorageItem, readThrows)
    /\ result' = [op |-> "generateBookingId", success |-> TRUE,
                  bookingId |-> generateBookingId(localStorageAvailable, localStorageItem,
                                                  inMemoryStore, date, readThrows)]
    /\ UNCHANGED <<localStorageAvailable, inMemoryStore, now, uiVars, tabs, histVars>>

RepoClearAllBookings ==
    /\ localStorageItem' = clearAllBookings(localStorageItem)
    /\ result' = [op |-> "clearAllBookings", success |-> TRUE]
    /\ UNCHANGED <<localStorageAvailable, inMemoryStore, now, uiVars, tabs, histVars>>

\* something other than this program leaves a damaged value under the key
EnvDamageItem(item) ==
    /\ localStorageAvailable
    /\ localStorageItem # item
    /\ localStorageItem' = item
    /\ result' = [op |-> "damage", success |-> TRUE]
    /\ UNCHANGED <<localStorageAvailable, inMemoryStore, now, uiVars, tabs, histVars>>

\* the item of this moment with a lastBookingNumber that is no number any
\* more: bookings is still the array it was, the shape is not the expected one
MistypedItem == [kind |-> "malformed", data |-> localStorageItem.data]

RepoInit == StoreInit /\ UIInit /\ HistInit /\ tabs = <<>>

RepoNext ==
    \/ \E b \in RepoBookings, rt \in Faults, wt \in Faults : RepoSaveBooking(b, rt, wt)
    \/ \E d \in RepoDates, s \in RepoSeatLists, rt \in Faults, wt \in Faults :
          RepoCreateBooking(d, s, rt, wt)
    \/ \E id \in RepoIds, rt \in Faults, wt \in Faults : RepoDeleteBooking(id, rt, wt)
    \/ \E id \in RepoIds, st \in {BOARDING_STATUS.NOT_BOARDED, BOARDING_STATUS.BOARDED},
          rt \in Faults, wt \in Faults : RepoUpdateBoardingStatus(id, st, rt, wt)
    \/ \E d \in RepoDates, rt \in Faults : RepoGenerateBookingId(d, rt)
    \/ RepoClearAllBookings
    \/ \E item \in {MalformedItem, UnparseableItem} : EnvDamageItem(item)

SpecRepo == RepoInit /\ [][RepoNext]_vars

\* the same calls on a surface that never throws, where the only interference
\* is an item that does not parse or has not the expected shape
ResetNext ==
    \/ \E b \in RepoBookings : RepoSaveBooking(b, FALSE, FALSE)
    \/ \E d \in RepoDates, s \in RepoSeatLists : RepoCreateBooking(d, s, FALSE, FALSE)
    \/ \E id \in RepoIds : RepoDeleteBooking(id, FALSE, FALSE)
    \/ \E id \in RepoIds, st \in {BOARDING_STATUS.NOT_BOARDED, BOARDING_STATUS.BOARDED} :
          RepoUpdateBoardingStatus(id, st, FALSE, FALSE)
    \/ \E d \in RepoDates : RepoGenerateBookingId(d, FALSE)
    \/ \E item \in {MalformedItem, UnparseableItem, MistypedItem} : EnvDamageItem(item)

SpecReset == RepoInit /\ [][ResetNext]_vars

(***************************************************************************)
(* The repository of two processes given the same calls: one on a working  *)
(* localStorage (localStorageItem), one that found localStorage unusable    *)
(* and keeps its bookings in _inMemoryStore.  result holds what each call   *)
(* returned to either process.                                              *)
(***************************************************************************)
TwinResult(op, persisted, fallback) ==
    [op |-> op, success |-> persisted.success,
     persisted |-> persisted, fallback |-> fallback]

TwinSaveBooking(booking) ==
    LET l == saveBooking(TRUE, localStorageItem, EmptyStore, booking, FALSE, FALSE)
        m == saveBooking(FALSE, AbsentItem, inMemoryStore, booking, FALSE, FALSE)
    IN  /\ localStorageItem' = l.item
        /\ inMemoryStore' = m.memory
        /\ result' = TwinResult("saveBooking",
                         [success |-> l.success, updated |-> l.updated, booking |-> l.booking],
                         [success |-> m.success, updated |-> m.updated, booking |-> m.booking])
        /\ UNCHANGED <<localStorageAvailable, now, uiVars, tabs, histVars>>

\* generateBookingId, then saveBooking of a booking with the id each process got
TwinCreateBooking(date, seats) ==
    LET lid == generateBookingId(TRUE, localStorageItem, EmptyStore, date, FALSE)
        mid == generateBookingId(FALSE, AbsentItem, inMemoryStore, date, FALSE)
        bookingData(id) == [bookingId |-> id, travelDate |-> date, mobileNumber |-> Mobile1,
                            seats |-> seats, bookingTime |-> now,
                            boardingStatus |-> BOARDING_STATUS.NOT_BOARDED]
        l == saveBooking(TRUE, localStorageItem, EmptyStore, bookingData(lid), FALSE, FALSE)
        m == saveBooking(FALSE, AbsentItem, inMemoryStore, bookingData(mid), FALSE, FALSE)
    IN  /\ bookingNumberOf(lid) <= MaxSeq
        /\ bookingNumberOf(mid) <= MaxSeq
        /\ localStorageItem' = l.item
        /\ inMemoryStore' = m.memory
        /\ result' = TwinResult("createBooking",
                         [success |-> l.success, updated |-> l.updated, booking |-> l.booking],
                         [success |-> m.success, updated |-> m.updated, booking |-> m.booking])
        /\ UNCHANGED <<localStorageAvailable, now, uiVars, tabs, histVars>>

TwinDeleteBooking(bookingId) ==
    LET l == deleteBooking(TRUE, localStorageItem, EmptyStore, bookingId, FALSE, FALSE)
        m == deleteBooking(FALSE, AbsentItem, inMemoryStore, bookingId, FALSE, FALSE)
    IN  /\ localStorageItem' = l.item
        /\ inMemoryStore' = m.memory
        /\ result' = TwinResult("deleteBooking",
                         [success |-> l.success, found |-> l.found],
                         [success |-> m.success, found |-> m.found])
        /\ UNCHANGED <<localStorageAvailable, now, uiVars, tabs, histVars>>

TwinUpdateBoardingStatus(bookingId, status) ==
    LET l == updateBoardingStatus(TRUE, localStorageItem, EmptyStore, bookingId, status,
                                  FALSE, FALSE)
        m == updateBoardingStatus(FALSE, AbsentItem, inMemoryStore, bookingId, status,
                                  FALSE, FALSE)
    IN  /\ localStorageItem' = l.item
        /\ inMemoryStore' = m.memory
        /\ result' = TwinResult("updateBoardingStatus",
                         [success |-> l.success, found |-> l.found],
                         [success |-> m.success, found |-> m.found])
        /\ UNCHANGED <<localStorageAvailable, now, uiVars, tabs, histVars>>

\* what the read projections return on a store
projections(store, date) ==
    [success |-> TRUE,
     byDate |-> getBookingsByDate(store, date),
     byMobileAndDate |-> getBookingsByMobileAndDate(store, Mobile1, date, NoId),
     bookedSeats |-> getBookedSeatsByDate(store, date, NoId),
     seatsCount |-> getSeatsCountByMobileAndDate(store, Mobile1, date, NoId)]

\* generateBookingId and the read projections, called in both processes
TwinRead(date) ==
    LET l == getBookingsFromStorage(TRUE, localStorageItem, EmptyStore, FALSE)
        m == getBookingsFromStorage(FALSE, AbsentItem, inMemoryStore, FALSE)
    IN  /\ result' = TwinResult("read",
                         projections(l, date) @@
                             [bookingId |-> generateBookingId(TRUE, localStorageItem,
                                                              EmptyStore, date, FALSE)],
                         projections(m, date) @@
                             [bookingId |-> generateBookingId(FALSE, AbsentItem,
                                                              inMemoryStore, date, FALSE)])
        /\ result' # result
        /\ UNCHANGED <<storeVars, now, uiVars, tabs, histVars>>

TwinInit ==
    /\ localStorageAvailable = TRUE
    /\ localStorageItem = AbsentItem
    /\ inMemoryStore = EmptyStore
    /\ result = TwinResult("none", [success |-> FALSE], [success |-> FALSE])
    /\ now = 0
    /\ UIInit
    /\ HistInit
    /\ tabs = <<>>

TwinNext ==
    \/ \E b \in RepoBookings : TwinSaveBooking(b)
    \/ \E d \in RepoDates, s \in RepoSeatLists : TwinCreateBooking(d, s)
    \/ \E id \in RepoIds : TwinDeleteBooking(id)
    \/ \E id \in RepoIds, st \in {BOARDING_STATUS.NOT_BOARDED, BOARDING_STATUS.BOARDED} :
          TwinUpdateBoardingStatus(id, st)
    \/ \E d \in RepoDates : TwinRead(d)

SpecTwin == TwinInit /\ [][TwinNext]_vars

(***************************************************************************)
(* Two pages on one localStorage item.  Each runs the create path of       *)
(* handleCreateBooking; a page's JavaScript runs to completion, but its     *)
(* getItem and setItem calls interleave with those of the other page.       *)
(***************************************************************************)
Callers == {1, 2}
MobileOf(t) == IF t = 1 THEN Mobile1 ELSE Mobile2
SeatOf(t) == IF t = 1 THEN A1 ELSE B1

IdleTab == [pc |-> "idle", bookingId |-> NoId, data |-> EmptyStore,
            genAt |-> 0, saves |-> 0, acked |-> <<>>, stale |-> FALSE]

\* the booking a caller builds from its form
bookingDataOf(t) ==
    [bookingId |-> tabs[t].bookingId, travelDate |-> Today, mobileNumber |-> MobileOf(t),
     seats |-> <<SeatOf(t)>>, bookingTime |-> now,
     boardingStatus |-> BOARDING_STATUS.NOT_BOARDED]

\* generateBookingId(formData.travelDate): getItem, lastBookingNumber + 1
TabGenerateBookingId(t) ==
    /\ tabs[t].pc = "idle"
    /\ tabs[t].saves < MaxTabSaves
    /\ tabs' = [tabs EXCEPT ![t].pc = "generated",
                            ![t].bookingId = generateBookingId(TRUE, localStorageItem,
                                                               inMemoryStore, Today, FALSE),
                            ![t].genAt = writes]
    /\ result' = [op |-> "generateBookingId", success |-> TRUE]
    /\ UNCHANGED <<storeVars, now, uiVars, histVars>>

\* saveBooking, first half: getBookingsFromStorage()
TabLoad(t) ==
    /\ tabs[t].pc = "generated"
    /\ tabs' = [tabs EXCEPT ![t].pc = "loaded",
                            ![t].data = getBookingsFromStorage(TRUE, localStorageItem,
                                                               inMemoryStore, FALSE)]
    /\ result' = [op |-> "getBookingsFromStorage", success |-> TRUE]
    /\ UNCHANGED <<storeVars, now, uiVars, histVars>>

\* saveBooking, second half: merge into what was read, setItem, report success
TabStore(t) ==
    LET booking == bookingDataOf(t)
        saved == saveBookingsToStorage(TRUE, localStorageItem, inMemoryStore,
                                       upsert(tabs[t].data, booking), FALSE)
    IN  /\ tabs[t].pc = "loaded"
        /\ localStorageItem' = saved.item
        /\ inMemoryStore' = saved.memory
        /\ writes' = writes + 1
        /\ tabs' = [tabs EXCEPT ![t].pc = "idle",
                                ![t].saves = @ + 1,
                                ![t].acked = IF saved.success THEN Append(@, booking) ELSE @,
                                ![t].stale = @ \/ tabs[t].genAt < writes]
        /\ result' = [op |-> "saveBooking", success |-> saved.success]
        /\ UNCHANGED <<localStorageAvailable, now, uiVars, deletedIds, lastCreated, created>>

TabsInit ==
    /\ localStorageAvailable = TRUE
    /\ localStorageItem = AbsentItem
    /\ inMemoryStore = EmptyStore
    /\ result = NoResult
    /\ now = 0
    /\ UIInit
    /\ HistInit
    /\ tabs = [t \in Callers |-> IdleTab]

TabsNext ==
    \/ \E t \in Callers : TabGenerateBookingId(t)
    \/ \E t \in Callers : TabLoad(t)
    \/ \E t \in Callers : TabStore(t)

SpecTabs == TabsInit /\ [][TabsNext]_vars

(***************************************************************************)
(* Validation (utils/validation.js).  An error is the empty string when    *)
(* the rule passes, otherwise a tag for the message the code produces.     *)
(***************************************************************************)
Includes(seq, x) == \E i \in 1..Len(seq) : seq[i] = x

\* mobileNumber.replace(/[\s-]/g, '')
cleanNumber(mobileNumber) ==
    SelectSeq(mobileNumber, LAMBDA c : c \notin {" ", "-"})

\* MOBILE_PATTERN = /^[6-9]\d{9}$/
MOBILE_PATTERN(s) ==
    /\ Len(s) = 10
    /\ s[1] \in {"6", "7", "8", "9"}
    /\ \A i \in 1..Len(s) : Includes(Digits, s[i])

validateMobileNumber(mobileNumber) ==
    LET cleanedNumber == cleanNumber(mobileNumber)
    IN  IF mobileNumber = <<>>
        THEN [isValid |-> FALSE, error |-> "required", cleanedNumber |-> mobileNumber]
        ELSE IF Len(cleanedNumber) # 10
        THEN [isValid |-> FALSE, error |-> "length", cleanedNumber |-> mobileNumber]
        ELSE IF ~MOBILE_PATTERN(cleanedNumber)
        THEN [isValid |-> FALSE, error |-> "INVALID_MOBILE", cleanedNumber |-> mobileNumber]
        ELSE [isValid |-> TRUE, error |-> "", cleanedNumber |-> cleanedNumber]

\* selectedDate < today, both at midnight
DateBefore(a, b) == datePart(a) < datePart(b)

validateTravelDate(date) ==
    IF DateBefore(date, Today) THEN [isValid |-> FALSE, error |-> "PAST_DATE"]
    ELSE [isValid |-> TRUE, error |-> ""]

validateSeatSelection(seats) ==
    IF Len(seats) = 0 THEN [isValid |-> FALSE, error |-> "NO_SEATS_SELECTED"]
    ELSE IF Len(seats) > MAX_SEATS_PER_BOOKING THEN [isValid |-> FALSE, error |-> "SEAT_LIMIT"]
    ELSE [isValid |-> TRUE, error |-> ""]

checkDuplicateSeats(seats, bookedSeats) ==
    LET duplicates == SelectSeq(seats, LAMBDA seat : Includes(bookedSeats, seat))
    IN  IF Len(duplicates) > 0
        THEN [isValid |-> FALSE, error |-> "already booked", duplicates |-> duplicates]
        ELSE [isValid |-> TRUE, error |-> "", duplicates |-> <<>>]

\* variant: the cap is reached one seat early
checkSeatLimitForMobile_atLeast(selectedSeatsCount, alreadyBookedCount) ==
    LET totalSeats == selectedSeatsCount + alreadyBookedCount
        remainingSeats == MAX_SEATS_PER_BOOKING - alreadyBookedCount
    IN  IF totalSeats >= MAX_SEATS_PER_BOOKING
        THEN [isValid |-> FALSE, error |-> "SAME_MOBILE_LIMIT",
              booked |-> alreadyBookedCount,
              remaining |-> IF remainingSeats > 0 THEN remainingSeats ELSE 0,
              remainingSeats |-> remainingSeats]
        ELSE [isValid |-> TRUE, error |-> "", booked |-> alreadyBookedCount,
              remaining |-> MAX_SEATS_PER_BOOKING - totalSeats,
              remainingSeats |-> MAX_SEATS_PER_BOOKING - totalSeats]

checkSeatLimitForMobile(selectedSeatsCount, alreadyBookedCount) ==
    LET totalSeats == selectedSeatsCount + alreadyBookedCount
        remainingSeats == MAX_SEATS_PER_BOOKING - alreadyBookedCount
    IN  IF totalSeats > MAX_SEATS_PER_BOOKING
        THEN [isValid |-> FALSE, error |-> "SAME_MOBILE_LIMIT",
              booked |-> alreadyBookedCount,
              remaining |-> IF remainingSeats > 0 THEN remainingSeats ELSE 0,
              remainingSeats |-> remainingSeats]
        ELSE [isValid |-> TRUE, error |-> "", booked |-> alreadyBookedCount,
              remaining |-> MAX_SEATS_PER_BOOKING - totalSeats,
              remainingSeats |-> MAX_SEATS_PER_BOOKING - totalSeats]

\* validateBookingForm: candidate carries mobileNumber, travelDate, seats,
\* bookingId and currentSeats (both of NoBooking when a booking is created)
validateBookingForm(candidate, bookedSeats, existingSeatsCount) ==
    LET mobileValidation == validateMobileNumber(candidate.mobileNumber)
        dateValidation == validateTravelDate(candidate.travelDate)
        seatValidation == validateSeatSelection(candidate.seats)
        noErrorYet == /\ mobileValidation.isValid
                      /\ dateValidation.isValid
                      /\ seatValidation.isValid
        isUpdate == candidate.bookingId # NoId
        excludeSeats ==
            IF isUpdate
            THEN SelectSeq(bookedSeats, LAMBDA seat : ~Includes(candidate.currentSeats, seat))
            ELSE bookedSeats
        duplicateCheck == checkDuplicateSeats(candidate.seats, excludeSeats)
        limitCheck == checkSeatLimitForMobile(Len(candidate.seats), existingSeatsCount)
        seatsError ==
            IF ~noErrorYet THEN seatValidation.error
            ELSE IF ~duplicateCheck.isValid THEN duplicateCheck.error
            ELSE limitCheck.error
    IN  [isValid |-> noErrorYet /\ duplicateCheck.isValid /\ limitCheck.isValid,
         errors |-> [mobileNumber |-> mobileValidation.error,
                     travelDate |-> dateValidation.error,
                     seats |-> seatsError],
         mobileNumber |-> IF mobileValidation.isValid
                          THEN mobileValidation.cleanedNumber
                          ELSE candidate.mobileNumber]


(***************************************************************************)
(* validateBookingForm called on candidates of every kind: result holds    *)
(* the arguments, what was returned, and the candidate's mobileNumber as    *)
(* the call left it.                                                        *)
(***************************************************************************)
Yesterday == [y |-> 2026, m |-> 10, d |-> 31]
MobileDashed == <<"9", "8", "7", "6", "5", "-", "4", "3", "2", "1", "0">>
MobileShort == <<"9", "8", "7", "6", "5">>
MobileBadStart == <<"1", "2", "3", "4", "5", "6", "7", "8", "9", "0">>
C1seat == Seat("C", 1)

ValidateMobiles == {<<>>, Mobile1, MobileDashed, MobileShort, MobileBadStart}
ValidateDates == {Yesterday, Today, Tomorrow}
ValidateSeatLists ==
    {<<>>, <<A1>>, <<A1, B1>>, <<A1, B1, C1seat>>,
     <<A1, B1, C1seat, Seat("D", 1), Seat("A", 2), Seat("B", 2), Seat("C", 2)>>}
ValidateBookedSeats == {<<>>, <<A1>>, <<B1>>}
\* bookingId and currentSeats: of no booking, or of the booking being edited
ValidateEditing ==
    {[bookingId |-> NoId, currentSeats |-> <<>>],
     [bookingId |-> BookingIdOf(Today, 1), currentSeats |-> <<A1>>],
     [bookingId |-> BookingIdOf(Today, 1), currentSeats |-> <<B1>>]}

\* a caller about to validate: the arguments it will pass
ValidateInit ==
    /\ localStorageAvailable = TRUE
    /\ localStorageItem = AbsentItem
    /\ inMemoryStore = EmptyStore
    /\ now = 0
    /\ UIInit
    /\ HistInit
    /\ tabs = <<>>
    /\ \E m \in ValidateMobiles, d \in ValidateDates, s \in ValidateSeatLists,
          e \in ValidateEditing, bs \in ValidateBookedSeats, n \in 0..MaxExisting :
           result = [op |-> "candidate", success |-> FALSE,
                     candidate |-> [mobileNumber |-> m, travelDate |-> d, seats |-> s,
                                    bookingId |-> e.bookingId,
                                    currentSeats |-> e.currentSeats],
                     bookedSeats |-> bs,
                     existingSeatsCount |-> n]

ValidateBookingForm ==
    LET validation == validateBookingForm(result.candidate, result.bookedSeats,
                                          result.existingSeatsCount)
    IN  /\ result.op = "candidate"
        /\ result' = [op |-> "validateBookingForm",
                      success |-> validation.isValid,
                      candidate |-> result.candidate,
                      bookedSeats |-> result.bookedSeats,
                      existingSeatsCount |-> result.existingSeatsCount,
                      errors |-> validation.errors,
                      mobileNumber |-> validation.mobileNumber,
                      limitCheck |-> checkSeatLimitForMobile(Len(result.candidate.seats),
                                                             result.existingSeatsCount)]
        /\ UNCHANGED <<storeVars, now, uiVars, tabs, histVars>>

ValidateNext == ValidateBookingForm

SpecValidate == ValidateInit /\ [][ValidateNext]_vars

(***************************************************************************)
(* The booking pipeline of one page: BookingProvider state, the BookingForm *)
(* handlers and the BookingList row actions, on a persistence surface that  *)
(* does not fail.  The form's date and mobile inputs, the seat map and the  *)
(* list rows stay usable while the 300 ms submit timer is pending, except   *)
(* for what isSubmitting disables.                                          *)
(***************************************************************************)
UISeats == {A1}

\* what an earlier visit left in localStorage: one booking of five seats
EarlierBooking ==
    [bookingId |-> BookingIdOf(Today, 1), travelDate |-> Today, mobileNumber |-> Mobile1,
     seats |-> <<B1, Seat("C", 1), Seat("D", 1), Seat("A", 2), Seat("B", 2)>>,
     bookingTime |-> 0, boardingStatus |-> BOARDING_STATUS.NOT_BOARDED]
EarlierStore == [bookings |-> <<EarlierBooking>>, lastBookingNumber |-> 1]

\* the page creates MaxCreate bookings on top of what it found
CreateLimit ==
    MaxCreate + (IF localStorageAvailable THEN EarlierStore.lastBookingNumber ELSE 0)
MobileInputs == {<<>>, Mobile1}

\* value.replace(/\D/g, '').slice(0, 10)
numericValue(value) == SelectSeq(value, LAMBDA c : Includes(Digits, c))
truncatedValue(value) ==
    LET n == numericValue(value)
    IN  SubSeq(n, 1, IF Len(n) < 10 THEN Len(n) ELSE 10)

\* context value: bookedSeats and mobileSeatsCount of the current render
getBookedSeats ==
    getBookedSeatsByDate(CurrentStore, selectedDate, editingBooking.bookingId)

getMobileSeatsCount(mobileNumber) ==
    getSeatsCountByMobileAndDate(CurrentStore, mobileNumber, selectedDate,
                                 editingBooking.bookingId)

\* the validation effect of BookingForm
FormValidation ==
    validateBookingForm([mobileNumber |-> formData.mobileNumber,
                         travelDate |-> formData.travelDate,
                         seats |-> selectedSeats,
                         bookingId |-> editingBooking.bookingId,
                         currentSeats |-> IF editingBooking = NoBooking THEN <<>>
                                          ELSE editingBooking.seats],
                        getBookedSeats,
                        getMobileSeatsCount(formData.mobileNumber))

isFormValid == FormValidation.isValid

isSubmitting == pendingSubmit.armed

\* SeatMap: a booked seat, or any seat of a disabled map, takes no click
isSeatDisabled(seatId) == Includes(getBookedSeats, seatId) \/ isSubmitting

\* variant: the seventh seat is still taken
toggleSeat_sevenSeats(prevSeats, seat) ==
    IF Includes(prevSeats, seat)
    THEN SelectSeq(prevSeats, LAMBDA x : x # seat)
    ELSE IF Len(prevSeats) > 6 THEN prevSeats
    ELSE Append(prevSeats, seat)

\* prevSeats => deselect, or select up to six
toggleSeat(prevSeats, seat) ==
    IF Includes(prevSeats, seat)
    THEN SelectSeq(prevSeats, LAMBDA x : x # seat)
    ELSE IF Len(prevSeats) >= 6 THEN prevSeats
    ELSE Append(prevSeats, seat)

\* handleDateChange, then the effect on [selectedDate, loadBookings]
HandleDateChange(date) ==
    /\ date # formData.travelDate \/ date # selectedDate
    /\ selectedDate' = date
    /\ formData' = [formData EXCEPT !.travelDate = date]
    /\ selectedSeats' = <<>>
    /\ bookings' = IF date # selectedDate THEN getBookingsByDate(CurrentStore, date)
                   ELSE bookings
    /\ UNCHANGED <<storeVars, result, now, editingBooking, pendingSubmit, tabs, histVars>>

\* BookingForm.handleMobileChange; the input is disabled while editing
HandleMobileChange(value) ==
    /\ editingBooking = NoBooking
    /\ truncatedValue(value) # formData.mobileNumber
    /\ formData' = [formData EXCEPT !.mobileNumber = truncatedValue(value)]
    /\ UNCHANGED <<storeVars, result, now, selectedDate, selectedSeats, editingBooking,
                   bookings, pendingSubmit, tabs, histVars>>

\* a click on an enabled seat: BookingForm.handleSeatClick, handleSeatSelect
HandleSeatClick(seatId) ==
    LET newSelectedSeats == IF Includes(selectedSeats, seatId)
                            THEN SelectSeq(selectedSeats, LAMBDA x : x # seatId)
                            ELSE Append(selectedSeats, seatId)
    IN  /\ ~isSeatDisabled(seatId)
        /\ selectedSeats' =
              IF editingBooking # NoBooking /\ Len(newSelectedSeats) > MAX_SEATS_PER_BOOKING
              THEN selectedSeats
              ELSE toggleSeat(selectedSeats, seatId)
        /\ selectedSeats' # selectedSeats
        /\ UNCHANGED <<storeVars, result, now, selectedDate, formData, editingBooking,
                       bookings, pendingSubmit, tabs, histVars>>

\* the Edit button of a listed booking
StartEditBooking(booking) ==
    /\ Includes(bookings, booking)
    /\ editingBooking' = booking
    /\ formData' = [travelDate |-> booking.travelDate, mobileNumber |-> booking.mobileNumber]
    /\ selectedSeats' = booking.seats
    /\ selectedDate' = booking.travelDate
    /\ bookings' = IF booking.travelDate # selectedDate
                   THEN getBookingsByDate(CurrentStore, booking.travelDate)
                   ELSE bookings
    /\ UNCHANGED <<storeVars, result, now, pendingSubmit, tabs, histVars>>

\* Cancel Edit: resetForm of the current render
CancelEditBooking ==
    /\ editingBooking # NoBooking
    /\ ~isSubmitting
    /\ formData' = [travelDate |-> selectedDate, mobileNumber |-> <<>>]
    /\ selectedSeats' = <<>>
    /\ editingBooking' = NoBooking
    /\ UNCHANGED <<storeVars, result, now, selectedDate, bookings, pendingSubmit,
                   tabs, histVars>>

\* BookingForm.handleSubmit: the timer keeps the handleCreateBooking of this render
HandleSubmit ==
    /\ isFormValid
    /\ Len(selectedSeats) # 0
    /\ ~isSubmitting
    /\ pendingSubmit' = [armed |-> TRUE, formData |-> formData,
                         selectedSeats |-> selectedSeats,
                         editingBooking |-> editingBooking,
                         selectedDate |-> selectedDate]
    /\ UNCHANGED <<storeVars, result, now, selectedDate, formData, selectedSeats,
                   editingBooking, bookings, tabs, histVars>>

\* variant: an update is stamped with the time of the save
SubmitTimerFires_stampsNow ==
    LET p == pendingSubmit
        creating == p.editingBooking = NoBooking
        bookingData ==
            [bookingId |-> IF creating
                           THEN generateBookingId(localStorageAvailable, localStorageItem,
                                                  inMemoryStore, p.formData.travelDate, FALSE)
                           ELSE p.editingBooking.bookingId,
             travelDate |-> p.formData.travelDate,
             mobileNumber |-> p.formData.mobileNumber,
             seats |-> p.selectedSeats,
             bookingTime |-> now,
             boardingStatus |-> IF creating THEN BOARDING_STATUS.NOT_BOARDED
                                ELSE p.editingBooking.boardingStatus]
        r == saveBooking(localStorageAvailable, localStorageItem, inMemoryStore,
                         bookingData, FALSE, FALSE)
        saved == getBookingsFromStorage(localStorageAvailable, r.item, r.memory, FALSE)
    IN  /\ isSubmitting
        /\ creating => bookingNumberOf(bookingData.bookingId) <= CreateLimit
        /\ localStorageItem' = r.item
        /\ inMemoryStore' = r.memory
        /\ result' = [op |-> "handleCreateBooking", success |-> r.success]
        /\ IF r.success
           THEN /\ formData' = [travelDate |-> p.selectedDate, mobileNumber |-> <<>>]
                /\ selectedSeats' = <<>>
                /\ editingBooking' = NoBooking
                /\ bookings' = getBookingsByDate(saved, p.selectedDate)
           ELSE UNCHANGED <<formData, selectedSeats, editingBooking, bookings>>
        /\ pendingSubmit' = NoPending
        /\ lastCreated' = IF creating /\ r.success
                          THEN bookingNumberOf(bookingData.bookingId) ELSE lastCreated
        /\ created' = IF creating /\ r.success
                      THEN created \cup {[bookingId |-> bookingData.bookingId,
                                          bookingTime |-> bookingData.bookingTime]}
                      ELSE created
        /\ UNCHANGED <<localStorageAvailable, now, selectedDate, tabs, writes, deletedIds>>

\* the timer fires: handleCreateBooking with the formData, selectedSeats,
\* editingBooking, resetForm and loadBookings of the render that submitted,
\* against the storage as it is now
SubmitTimerFires ==
    LET p == pendingSubmit
        creating == p.editingBooking = NoBooking
        bookingData ==
            [bookingId |-> IF creating
                           THEN generateBookingId(localStorageAvailable, localStorageItem,
                                                  inMemoryStore, p.formData.travelDate, FALSE)
                           ELSE p.editingBooking.bookingId,
             travelDate |-> p.formData.travelDate,
             mobileNumber |-> p.formData.mobileNumber,
             seats |-> p.selectedSeats,
             bookingTime |-> IF creating THEN now ELSE p.editingBooking.bookingTime,
             boardingStatus |-> IF creating THEN BOARDING_STATUS.NOT_BOARDED
                                ELSE p.editingBooking.boardingStatus]
        r == saveBooking(localStorageAvailable, localStorageItem, inMemoryStore,
                         bookingData, FALSE, FALSE)
        saved == getBookingsFromStorage(localStorageAvailable, r.item, r.memory, FALSE)
    IN  /\ isSubmitting
        /\ creating => bookingNumberOf(bookingData.bookingId) <= CreateLimit
        /\ localStorageItem' = r.item
        /\ inMemoryStore' = r.memory
        /\ result' = [op |-> "handleCreateBooking", success |-> r.success]
        /\ IF r.success
           THEN /\ formData' = [travelDate |-> p.selectedDate, mobileNumber |-> <<>>]
                /\ selectedSeats' = <<>>
                /\ editingBooking' = NoBooking
                /\ bookings' = getBookingsByDate(saved, p.selectedDate)
           ELSE UNCHANGED <<formData, selectedSeats, editingBooking, bookings>>
        /\ pendingSubmit' = NoPending
        /\ lastCreated' = IF creating /\ r.success
                          THEN bookingNumberOf(bookingData.bookingId) ELSE lastCreated
        /\ created' = IF creating /\ r.success
                      THEN created \cup {[bookingId |-> bookingData.bookingId,
                                          bookingTime |-> bookingData.bookingTime]}
                      ELSE created
        /\ UNCHANGED <<localStorageAvailable, now, selectedDate, tabs, writes, deletedIds>>

\* the confirmed Cancel of a listed booking
HandleDeleteBooking(bookingId) ==
    LET r == deleteBooking(localStorageAvailable, localStorageItem, inMemoryStore,
                           bookingId, FALSE, FALSE)
        saved == getBookingsFromStorage(localStorageAvailable, r.item, r.memory, FALSE)
    IN  /\ \E i \in 1..Len(bookings) : bookings[i].bookingId = bookingId
        /\ localStorageItem' = r.item
        /\ inMemoryStore' = r.memory
        /\ result' = [op |-> "handleDeleteBooking", success |-> r.success]
        /\ bookings' = IF r.success THEN getBookingsByDate(saved, selectedDate) ELSE bookings
        /\ deletedIds' = IF r.success THEN deletedIds \cup {bookingId} ELSE deletedIds
        /\ UNCHANGED <<localStorageAvailable, now, selectedDate, formData, selectedSeats,
                       editingBooking, pendingSubmit, tabs, writes, lastCreated, created>>

\* the page is opened: over the item an earlier visit left, or, without a
\* usable localStorage, over the empty in-memory store
Init ==
    /\ localStorageAvailable \in BOOLEAN
    /\ localStorageItem = IF localStorageAvailable THEN JSONstringify(EarlierStore)
                          ELSE AbsentItem
    /\ inMemoryStore = EmptyStore
    /\ result = NoResult
    /\ now = 0
    /\ selectedDate = Today
    /\ formData = InitialFormData
    /\ selectedSeats = <<>>
    /\ editingBooking = NoBooking
    /\ bookings = getBookingsByDate(CurrentStore, Today)
    /\ pendingSubmit = NoPending
    /\ HistInit
    /\ tabs = <<>>

Next ==
    \/ \E date \in Dates : HandleDateChange(date)
    \/ \E value \in MobileInputs : HandleMobileChange(value)
    \/ \E seatId \in UISeats : HandleSeatClick(seatId)
    \/ \E i \in 1..Len(bookings) : StartEditBooking(bookings[i])
    \/ CancelEditBooking
    \/ HandleSubmit
    \/ SubmitTimerFires
    \/ \E i \in 1..Len(bookings) : HandleDeleteBooking(bookings[i].bookingId)

Spec == Init /\ [][Next]_vars

(***************************************************************************)
(* The page with a clock: new Date() of handleCreateBooking reads now, and *)
(* the clock is read nowhere else.  Time passes while the 300 ms submit    *)
(* timer is pending; the clock is advanced past a value only once a        *)
(* creation was stamped with it, which keeps it within the number of       *)
(* creations.  The booking of the earlier visit was created at time 0.     *)
(***************************************************************************)
Tick ==
    /\ isSubmitting
    /\ \E c \in created : c.bookingTime = now
    /\ now' = now + 1
    /\ UNCHANGED <<storeVars, result, uiVars, tabs, histVars>>

ClockInit ==
    /\ localStorageAvailable \in BOOLEAN
    /\ localStorageItem = IF localStorageAvailable THEN JSONstringify(EarlierStore)
                          ELSE AbsentItem
    /\ inMemoryStore = EmptyStore
    /\ result = NoResult
    /\ now = 1
    /\ selectedDate = Today
    /\ formData = InitialFormData
    /\ selectedSeats = <<>>
    /\ editingBooking = NoBooking
    /\ bookings = getBookingsByDate(CurrentStore, Today)
    /\ pendingSubmit = NoPending
    /\ HistInit
    /\ tabs = <<>>

ClockNext ==
    \/ Next
    \/ Tick

SpecClock == ClockInit /\ [][ClockNext]_vars

(***************************************************************************)
(* The boarding planner and the list queries (utils/boardingAlgorithm):    *)
(* strings are compared as String.prototype.localeCompare and the default  *)
(* Array.prototype.sort compare them, arrays are sorted as the stable      *)
(* Array.prototype.sort does with a comparator.                            *)
(***************************************************************************)
\* the characters of booking ids, seat identifiers and mobile numbers, in
\* the order both of their UTF-16 code units and of localeCompare
Alphabet == <<"-", "0", "1", "2", "3", "4", "5", "6", "7", "8", "9",
              "A", "B", "C", "D", "K">>
CharRank(c) == CHOOSE i \in 1..Len(Alphabet) : Alphabet[i] = c

RECURSIVE localeCompare(_, _)
localeCompare(a, b) ==
    IF a = <<>> /\ b = <<>> THEN 0
    ELSE IF a = <<>> THEN -1
    ELSE IF b = <<>> THEN 1
    ELSE IF CharRank(Head(a)) < CharRank(Head(b)) THEN -1
    ELSE IF CharRank(Head(a)) > CharRank(Head(b)) THEN 1
    ELSE localeCompare(Tail(a), Tail(b))

\* the text of a seat identifier and of a booking id
seatString(seat) == <<seat.column>> \o toString(seat.row)
idString(bookingId) ==
    <<"B", "K", "-">> \o toString(bookingId.datePart) \o <<"-">> \o bookingId.sequenceNumber

\* seat.match(/\d+/), parseInt(rowMatch[0], 10)
extractRowNumber(seat) ==
    LET rowMatch == SelectSeq(seatString(seat), LAMBDA c : Includes(Digits, c))
    IN  IF rowMatch = <<>> THEN 0 ELSE parseInt(rowMatch)

findFarthestRow(seats) ==
    IF seats = <<>> THEN 0
    ELSE LET rows == {extractRowNumber(seats[i]) : i \in 1..Len(seats)}
         IN  CHOOSE r \in rows : \A q \in rows : q <= r

countSeatsInRow(seats, row) ==
    IF seats = <<>> THEN 0
    ELSE Len(SelectSeq(seats, LAMBDA seat : extractRowNumber(seat) = row))

\* [...seats].sort(): the seat identifiers as strings, in ascending order
RECURSIVE sortedSeatStrings(_)
sortedSeatStrings(seats) ==
    IF seats = <<>> THEN <<>>
    ELSE LET rest == sortedSeatStrings(SubSeq(seats, 1, Len(seats) - 1))
             x == seatString(seats[Len(seats)])
             larger == {i \in 1..Len(rest) : localeCompare(rest[i], x) > 0}
             k == IF larger = {} THEN Len(rest) + 1
                  ELSE CHOOSE i \in larger : \A j \in larger : i <= j
         IN  SubSeq(rest, 1, k - 1) \o <<x>> \o SubSeq(rest, k, Len(rest))

\* a.sequenceNumber || 0
sequenceNumberOrZero(booking) ==
    IF "sequenceNumber" \in DOMAIN booking THEN booking.sequenceNumber ELSE 0

\* the comparators handed to Array.prototype.sort: of
\* calculateOptimalBoardingSequence, of sortBookingsByColumn and of
\* getNextPassengerToBoard
compare(comparator, a, b) ==
    IF comparator.fn = "optimal"
    THEN IF b.farthestRow # a.farthestRow THEN b.farthestRow - a.farthestRow
         ELSE IF b.seatsInFarthestRow # a.seatsInFarthestRow
         THEN b.seatsInFarthestRow - a.seatsInFarthestRow
         ELSE IF b.totalSeats # a.totalSeats THEN b.totalSeats - a.totalSeats
         ELSE localeCompare(idString(a.bookingId), idString(b.bookingId))
    ELSE IF comparator.fn = "column"
    THEN LET comparison ==
                 CASE comparator.column = "sequence" ->
                          sequenceNumberOrZero(a) - sequenceNumberOrZero(b)
                   [] comparator.column = "bookingId" ->
                          localeCompare(idString(a.bookingId), idString(b.bookingId))
                   [] comparator.column = "seats" ->
                          IF a.seats = <<>> THEN 0
                          ELSE localeCompare(sortedSeatStrings(a.seats)[1],
                                             sortedSeatStrings(b.seats)[1])
                   [] comparator.column = "mobile" ->
                          localeCompare(a.mobileNumber, b.mobileNumber)
                   [] OTHER -> 0
         IN  IF comparator.direction = "desc" THEN 0 - comparison ELSE comparison
    ELSE a.sequenceNumber - b.sequenceNumber

\* Array.prototype.sort(comparator): stable, ascending by the comparator
RECURSIVE ArraySort(_, _)
ArraySort(array, comparator) ==
    IF array = <<>> THEN <<>>
    ELSE LET rest == ArraySort(SubSeq(array, 1, Len(array) - 1), comparator)
             x == array[Len(array)]
             larger == {i \in 1..Len(rest) : compare(comparator, rest[i], x) > 0}
             k == IF larger = {} THEN Len(rest) + 1
                  ELSE CHOOSE i \in larger : \A j \in larger : i <= j
         IN  SubSeq(rest, 1, k - 1) \o <<x>> \o SubSeq(rest, k, Len(rest))

\* {...booking, farthestRow, totalSeats, seatsInFarthestRow}
withMetadata(booking) ==
    [farthestRow |-> findFarthestRow(booking.seats),
     totalSeats |-> Len(booking.seats),
     seatsInFarthestRow |-> countSeatsInRow(booking.seats, findFarthestRow(booking.seats))]
    @@ booking

\* {...booking, sequenceNumber: index + 1} for every element
withSequenceNumbers(array) ==
    [index \in 1..Len(array) |-> [sequenceNumber |-> index] @@ array[index]]

\* variant: the sequence numbers start at 0
calculateOptimalBoardingSequence_fromZero(array) ==
    [returned |->
        IF array = <<>> THEN <<>>
        ELSE LET bookingsWithMetadata ==
                     [i \in 1..Len(array) |-> withMetadata(array[i])]
                 sortedBookings == ArraySort(bookingsWithMetadata, [fn |-> "optimal"])
             IN  [index \in 1..Len(sortedBookings) |->
                     [sequenceNumber |-> index - 1] @@ sortedBookings[index]],
     bookings |-> array]

\* variant: the seats in the farthest row are not compared
calculateOptimalBoardingSequence_rowOnly(array) ==
    [returned |->
        IF array = <<>> THEN <<>>
        ELSE LET bookingsWithMetadata ==
                     [i \in 1..Len(array) |->
                         [seatsInFarthestRow |-> 0] @@ withMetadata(array[i])]
                 sortedBookings == ArraySort(bookingsWithMetadata, [fn |-> "optimal"])
             IN  [index \in 1..Len(sortedBookings) |->
                     [sequenceNumber |-> index,
                      seatsInFarthestRow |->
                          countSeatsInRow(sortedBookings[index].seats,
                                          sortedBookings[index].farthestRow)]
                     @@ sortedBookings[index]],
     bookings |-> array]

\* calculateOptimalBoardingSequence: what it returns, and the array it was
\* given after the call (the sort works on the array made by map)
calculateOptimalBoardingSequence(array) ==
    [returned |->
        IF array = <<>> THEN <<>>
        ELSE LET bookingsWithMetadata ==
                     [i \in 1..Len(array) |-> withMetadata(array[i])]
                 sortedBookings == ArraySort(bookingsWithMetadata, [fn |-> "optimal"])
             IN  withSequenceNumbers(sortedBookings),
     bookings |-> array]


\* variant: the direction is ignored, the order is always ascending
sortBookingsByColumn_ascendingOnly(array, column, direction) ==
    [returned |->
        IF array = <<>> THEN <<>>
        ELSE ArraySort(array, [fn |-> "column", column |-> column,
                               direction |-> "asc"]),
     bookings |-> array]

\* sortBookingsByColumn: what it returns, and the array it was given after
\* the call (the sort works on the copy [...bookings])
sortBookingsByColumn(array, column, direction) ==
    [returned |->
        IF array = <<>> THEN <<>>
        ELSE ArraySort(array, [fn |-> "column", column |-> column,
                               direction |-> direction]),
     bookings |-> array]

areAllPassengersBoarded(array) ==
    \/ array = <<>>
    \/ \A i \in 1..Len(array) : array[i].boardingStatus = "boarded"

\* variant: the first booking that has not boarded, in the order given
getNextPassengerToBoard_unsorted(array) ==
    IF array = <<>> THEN NoBooking
    ELSE LET waiting == SelectSeq(array, LAMBDA b : b.boardingStatus # "boarded")
         IN  IF waiting = <<>> THEN NoBooking ELSE Head(waiting)

\* getNextPassengerToBoard; null is NoBooking
getNextPassengerToBoard(array) ==
    IF array = <<>> THEN NoBooking
    ELSE LET sortedBySequence == ArraySort(array, [fn |-> "sequenceNumber"])
             waiting == SelectSeq(sortedBySequence, LAMBDA b : b.boardingStatus # "boarded")
         IN  IF waiting = <<>> THEN NoBooking ELSE Head(waiting)

(***************************************************************************)
(* The boarding page over the bookings of one date: the provider's         *)
(* bookings state is any list of up to MaxBoarding bookings with different *)
(* ids, getSortedFilteredBookings runs with every boarding mode, sort      *)
(* column and direction (the search term is empty).                        *)
(***************************************************************************)
BoardingSeats ==
    <<  <<Seat("A", 15)>>,
        <<Seat("A", 3), Seat("A", 10)>>,
        <<Seat("B", 10), Seat("C", 10)>>,
        <<Seat("B", 3)>>,
        <<Seat("D", 3)>>  >>
BoardingMobiles == <<Mobile2, Mobile1, Mobile1, Mobile2, Mobile1>>

BoardingBooking(n, status) ==
    [bookingId |-> BookingIdOf(Today, n), travelDate |-> Today,
     mobileNumber |-> BoardingMobiles[n], seats |-> BoardingSeats[n],
     bookingTime |-> 0, boardingStatus |-> status]

\* which of the five have boarded
BoardedSets == {{}, {1, 3}, {2, 4, 5}, {1, 2, 3, 4, 5}}

BoardingPool(boarded) ==
    {BoardingBooking(n, IF n \in boarded THEN BOARDING_STATUS.BOARDED
                        ELSE BOARDING_STATUS.NOT_BOARDED) : n \in 1..Len(BoardingSeats)}

BoardingLists ==
    UNION {{list \in [1..n -> BoardingPool(boarded)] :
               \A i, j \in 1..n : i # j => list[i].bookingId # list[j].bookingId} :
           n \in 0..MaxBoarding, boarded \in BoardedSets}

BoardingModes == {"optimal", "natural"}
SortColumns == {"sequence", "bookingId", "seats", "mobile"}
SortDirections == {"asc", "desc"}

BoardingInit ==
    /\ localStorageAvailable = TRUE
    /\ localStorageItem = AbsentItem
    /\ inMemoryStore = EmptyStore
    /\ result = NoResult
    /\ now = 0
    /\ selectedDate = Today
    /\ formData = InitialFormData
    /\ selectedSeats = <<>>
    /\ editingBooking = NoBooking
    /\ bookings \in BoardingLists
    /\ pendingSubmit = NoPending
    /\ HistInit
    /\ tabs = <<>>

\* boardingMode === 'optimal' ? calculateOptimalBoardingSequence(bookings)
\*                            : bookings.map(... sequenceNumber: index + 1)
processedBookings(boardingMode) ==
    IF boardingMode = "optimal" THEN calculateOptimalBoardingSequence(bookings).returned
    ELSE withSequenceNumbers(bookings)

GetSortedFilteredBookings(boardingMode, column, direction) ==
    LET optimal == calculateOptimalBoardingSequence(bookings)
        processed == processedBookings(boardingMode)
        sorted == sortBookingsByColumn(processed, column, direction)
    IN  /\ result.op = "none"
        /\ result' = [op |-> "getSortedFilteredBookings", success |-> TRUE,
                      boardingMode |-> boardingMode,
                      column |-> column, direction |-> direction,
                      optimalBookings |-> optimal.returned,
                      bookings |-> optimal.bookings,
                      processedBookings |-> processed,
                      processedAfter |-> sorted.bookings,
                      sortedFilteredBookings |-> sorted.returned]
        /\ UNCHANGED <<storeVars, now, uiVars, tabs, histVars>>

\* getNextPassengerToBoard and areAllPassengersBoarded over the rows the
\* boarding list shows
GetNextPassengerToBoard ==
    /\ result.op = "getSortedFilteredBookings"
    /\ result' = [op |-> "getNextPassengerToBoard", success |-> TRUE,
                  sortedFilteredBookings |-> result.sortedFilteredBookings,
                  next |-> getNextPassengerToBoard(result.sortedFilteredBookings),
                  allBoarded |-> areAllPassengersBoarded(result.sortedFilteredBookings)]
    /\ UNCHANGED <<storeVars, now, uiVars, tabs, histVars>>

BoardingNext ==
    \/ \E boardingMode \in BoardingModes, column \in SortColumns,
          direction \in SortDirections :
            GetSortedFilteredBookings(boardingMode, column, direction)
    \/ GetNextPassengerToBoard

SpecBoarding == BoardingInit /\ [][BoardingNext]_vars

(***************************************************************************)
(* Numbers.  The quotients and percentages of the summary are IEEE 754     *)
(* doubles.  A positive double is the record [kind |-> "finite", exponent, *)
(* bits]: bits holds the 53 binary digits of the significand, the most     *)
(* significant (a 1) first, and the value is the sum of                    *)
(* bits[i] * 2^(exponent - i + 1).  Division and multiplication round to   *)
(* the nearest double, ties to the even significand.                       *)
(***************************************************************************)
MantissaBits == 53

NaN == [kind |-> "nan"]
PositiveInfinity == [kind |-> "infinity"]
PositiveZero == [kind |-> "zero"]

\* the binary digits of a natural number, most significant first
RECURSIVE binary(_)
binary(n) == IF n = 0 THEN <<>> ELSE Append(binary(n \div 2), n % 2)

\* the natural number of a sequence of binary digits
RECURSIVE bitsValue(_)
bitsValue(bits) ==
    IF bits = <<>> THEN 0
    ELSE 2 * bitsValue(SubSeq(bits, 1, Len(bits) - 1)) + bits[Len(bits)]

\* the significand plus one unit in the last place
nextSignificand(exponent, bits) ==
    LET zeros == {i \in 1..Len(bits) : bits[i] = 0}
    IN  IF zeros = {}
        THEN [kind |-> "finite", exponent |-> exponent + 1,
              bits |-> [i \in 1..Len(bits) |-> IF i = 1 THEN 1 ELSE 0]]
        ELSE LET k == CHOOSE i \in zeros : \A j \in zeros : j <= i
             IN  [kind |-> "finite", exponent |-> exponent,
                  bits |-> [i \in 1..Len(bits) |->
                               IF i < k THEN bits[i] ELSE IF i = k THEN 1 ELSE 0]]

roundToNearest(exponent, bits, roundUp) ==
    IF roundUp THEN nextSignificand(exponent, bits)
    ELSE [kind |-> "finite", exponent |-> exponent, bits |-> bits]

\* e with 2^e <= dividend / divisor < 2^(e + 1), and the pair scaled so that
\* divisor <= dividend < 2 * divisor
RECURSIVE scaleQuotient(_, _, _)
scaleQuotient(dividend, divisor, exponent) ==
    IF dividend < divisor THEN scaleQuotient(2 * dividend, divisor, exponent - 1)
    ELSE IF dividend >= 2 * divisor THEN scaleQuotient(dividend, 2 * divisor, exponent + 1)
    ELSE [dividend |-> dividend, divisor |-> divisor, exponent |-> exponent]

\* long division: the digits of the quotient after those in bits
RECURSIVE divisionDigits(_, _, _)
divisionDigits(remainder, divisor, bits) ==
    IF Len(bits) = MantissaBits THEN [bits |-> bits, remainder |-> remainder]
    ELSE LET bit == IF 2 * remainder >= divisor THEN 1 ELSE 0
         IN  divisionDigits(2 * remainder - bit * divisor, divisor, Append(bits, bit))

\* a / b for integers a >= 0 and b >= 0
divideNumbers(a, b) ==
    IF b = 0 THEN (IF a = 0 THEN NaN ELSE PositiveInfinity)
    ELSE IF a = 0 THEN PositiveZero
    ELSE LET scaled == scaleQuotient(a, b, 0)
             digits == divisionDigits(scaled.dividend - scaled.divisor,
                                      scaled.divisor, <<1>>)
             roundUp == \/ 2 * digits.remainder > scaled.divisor
                        \/ /\ 2 * digits.remainder = scaled.divisor
                           /\ digits.bits[MantissaBits] = 1
         IN  roundToNearest(scaled.exponent, digits.bits, roundUp)

\* the digits of bits * factor, for a small natural factor: product holds the
\* digits of the last Len(product) digits of bits times factor, carry the rest
RECURSIVE multiplyDigits(_, _, _, _)
multiplyDigits(bits, factor, carry, product) ==
    IF Len(product) = Len(bits) THEN binary(carry) \o product
    ELSE LET t == bits[Len(bits) - Len(product)] * factor + carry
         IN  multiplyDigits(bits, factor, t \div 2, <<t % 2>> \o product)

\* x * factor for a double x >= 0 and an integer factor >= 1
multiplyNumber(x, factor) ==
    IF x.kind # "finite" THEN x
    ELSE LET product == multiplyDigits(x.bits, factor, 0, <<>>)
             kept == SubSeq(product, 1, MantissaBits)
             dropped == SubSeq(product, MantissaBits + 1, Len(product))
             roundUp == /\ dropped # <<>>
                        /\ dropped[1] = 1
                        /\ \/ \E i \in 2..Len(dropped) : dropped[i] = 1
                           \/ kept[MantissaBits] = 1
         IN  roundToNearest(x.exponent + Len(dropped), kept, roundUp)

\* the integer closest to a double x >= 0 below 2^31, the larger one of two
\* equally close ones: Math.round(x), and the n of x.toFixed(0)
closestInteger(x) ==
    IF x.kind = "zero" \/ x.exponent < 0 - 1 THEN 0
    ELSE IF x.exponent = 0 - 1 THEN 1
    ELSE bitsValue(SubSeq(x.bits, 1, x.exponent + 1)) + x.bits[x.exponent + 2]

MathRound(x) == closestInteger(x)

\* Number.prototype.toFixed(0), as a string of characters
toFixed(x) ==
    IF x.kind = "nan" THEN <<"N", "a", "N">>
    ELSE IF x.kind = "infinity" THEN <<"I", "n", "f", "i", "n", "i", "t", "y">>
    ELSE toString(closestInteger(x))

(***************************************************************************)
(* The summary of the boarding page: statistics and the time model.        *)
(***************************************************************************)
\* the number of elements of a sequence of sequences: reduce((sum, booking)
\* => sum + booking.seats.length, 0)
RECURSIVE sumOfSeats(_)
sumOfSeats(array) ==
    IF array = <<>> THEN 0
    ELSE sumOfSeats(SubSeq(array, 1, Len(array) - 1)) + Len(array[Len(array)].seats)

calculateBoardingTime(array) ==
    IF array = <<>>
    THEN [optimalTimeSeconds |-> 0, optimalTimeMinutes |-> 0,
          optimalTimeMessage |-> <<"0 seconds">>]
    ELSE LET optimalTimeSeconds == 60
             optimalTimeMinutes == optimalTimeSeconds \div 60
             remainingSeconds == optimalTimeSeconds % 60
         IN  [optimalTimeSeconds |-> optimalTimeSeconds,
              optimalTimeMinutes |-> optimalTimeMinutes,
              optimalTimeMessage |->
                  IF optimalTimeMinutes > 0 /\ remainingSeconds > 0
                  THEN <<toString(optimalTimeMinutes), " min ",
                         toString(remainingSeconds), " sec">>
                  ELSE IF optimalTimeMinutes > 0
                  THEN <<toString(optimalTimeMinutes), " minute",
                         IF optimalTimeMinutes > 1 THEN "s" ELSE "">>
                  ELSE <<toString(remainingSeconds), " seconds">>]

\* variant: a settling time per passenger instead of per booking
calculateNaturalOrderTime_perSeat(array) ==
    IF array = <<>> THEN 0 ELSE sumOfSeats(array) * 60

calculateNaturalOrderTime(array) ==
    IF array = <<>> THEN 0 ELSE Len(array) * 60

\* for naturalTimeSeconds >= optimalTimeSeconds >= 0
calculateTimeSavings(naturalTimeSeconds, optimalTimeSeconds) ==
    LET savingsSeconds == naturalTimeSeconds - optimalTimeSeconds
        savingsMinutes == savingsSeconds \div 60
        remainingSeconds == savingsSeconds % 60
    IN  [savingsSeconds |-> savingsSeconds,
         savingsMinutes |-> savingsMinutes,
         savingsMessage |->
             IF savingsMinutes > 0 /\ remainingSeconds > 0
             THEN <<toString(savingsMinutes), "m ", toString(remainingSeconds), "s">>
             ELSE IF savingsMinutes > 0 THEN <<toString(savingsMinutes), "m">>
             ELSE <<toString(remainingSeconds), "s">>,
         savingsPercentage |->
             toFixed(multiplyNumber(divideNumbers(savingsSeconds, naturalTimeSeconds), 100))]

calculateBoardingStatistics(array) ==
    IF array = <<>>
    THEN [totalBookings |-> 0, totalPassengers |-> 0, boardedPassengers |-> 0,
          notBoardedPassengers |-> 0, boardingProgress |-> 0]
    ELSE LET totalBookings == Len(array)
             totalPassengers == sumOfSeats(array)
             boardedBookings ==
                 SelectSeq(array, LAMBDA b : b.boardingStatus = "boarded")
             boardedPassengers == sumOfSeats(boardedBookings)
             notBoardedPassengers == totalPassengers - boardedPassengers
             boardingProgress ==
                 IF totalPassengers > 0
                 THEN multiplyNumber(divideNumbers(boardedPassengers, totalPassengers), 100)
                 ELSE PositiveZero
         IN  [totalBookings |-> totalBookings,
              totalPassengers |-> totalPassengers,
              boardedPassengers |-> boardedPassengers,
              notBoardedPassengers |-> notBoardedPassengers,
              boardingProgress |-> MathRound(boardingProgress)]

(***************************************************************************)
(* Specification SpecSummary: the provider computes the summary of the     *)
(* bookings of the displayed date.  The date holds up to MaxGroups         *)
(* bookings of GroupSizes seats each; a booking takes the next free seats  *)
(* of the bus, and the first `boarded' bookings of the list have boarded.  *)
(***************************************************************************)
GroupSizes == {5, 6}

\* the k-th seat of the bus, row by row
seatAt(k) == Seat(SEAT_COLUMNS[((k - 1) % Len(SEAT_COLUMNS)) + 1],
                  ((k - 1) \div Len(SEAT_COLUMNS)) + 1)

\* the seats before the n-th booking, for bookings of the given sizes
RECURSIVE seatsBefore(_, _)
seatsBefore(sizes, n) == IF n = 1 THEN 0 ELSE seatsBefore(sizes, n - 1) + sizes[n - 1]

SummaryBookings(sizes, boarded) ==
    [n \in 1..Len(sizes) |->
        [bookingId |-> BookingIdOf(Today, n),
         travelDate |-> Today,
         mobileNumber |-> IF n % 2 = 1 THEN Mobile1 ELSE Mobile2,
         seats |-> [k \in 1..sizes[n] |-> seatAt(seatsBefore(sizes, n) + k)],
         bookingTime |-> 0,
         boardingStatus |-> IF n <= boarded THEN BOARDING_STATUS.BOARDED
                            ELSE BOARDING_STATUS.NOT_BOARDED]]

SummaryLists ==
    UNION {{SummaryBookings(sizes, boarded) :
                sizes \in [1..n -> GroupSizes], boarded \in 0..n} :
           n \in 0..MaxGroups}

SummaryInit ==
    /\ localStorageAvailable = TRUE
    /\ localStorageItem = AbsentItem
    /\ inMemoryStore = EmptyStore
    /\ result = NoResult
    /\ now = 0
    /\ selectedDate = Today
    /\ formData = InitialFormData
    /\ selectedSeats = <<>>
    /\ editingBooking = NoBooking
    /\ bookings \in SummaryLists
    /\ pendingSubmit = NoPending
    /\ HistInit
    /\ tabs = <<>>

\* boardingStats, optimalBookings, optimalTime, naturalTimeSeconds and
\* timeSavings of a render
BoardingSummary ==
    /\ result.op = "none"
    /\ LET optimalBookings == calculateOptimalBoardingSequence(bookings).returned
           optimalTime == calculateBoardingTime(optimalBookings)
           naturalTimeSeconds == calculateNaturalOrderTime(bookings)
       IN  result' = [op |-> "boardingSummary", success |-> TRUE,
                      boardingStats |-> calculateBoardingStatistics(bookings),
                      optimalTime |-> optimalTime,
                      naturalTimeSeconds |-> naturalTimeSeconds,
                      timeSavings |-> calculateTimeSavings(naturalTimeSeconds,
                                          optimalTime.optimalTimeSeconds)]
    /\ UNCHANGED <<storeVars, now, uiVars, tabs, histVars>>

SummaryNext == BoardingSummary

SpecSummary == SummaryInit /\ [][SummaryNext]_vars

(***************************************************************************)
(* Exceptions.  The public operations of the repository as a caller sees   *)
(* them: a call either returns a value or raises.  An item can hold JSON   *)
(* of the expected shape whose bookings are not booking objects; reading a *)
(* property of such an element throws a TypeError.                         *)
(***************************************************************************)
\* the JSON value null
Null == [null |-> TRUE]

\* the text {"bookings":[null],"lastBookingNumber":0}
ForeignItem == JSONstringify([bookings |-> <<Null>>, lastBookingNumber |-> 0])

\* array.filter(b => b.property ...) throws on an element that is null
filterThrows(array) == \E i \in 1..Len(array) : array[i] = Null

\* array.find(b => b.bookingId === bookingId) and findIndex throw when they
\* come to an element that is null before they come to a match
findThrows(array, bookingId) ==
    \E i \in 1..Len(array) :
        /\ array[i] = Null
        /\ \A j \in 1..(i - 1) : array[j] = Null \/ array[j].bookingId # bookingId

\* variant: the exception leaves the function
tryCatch_uncaught(throws, returned, caught) ==
    IF throws THEN [raised |-> TRUE] ELSE [raised |-> FALSE, returned |-> returned]

\* try { return returned } catch (error) { return caught }
tryCatch(throws, returned, caught) ==
    [raised |-> FALSE, returned |-> IF throws THEN caught ELSE returned]

callSaveBooking(available, item, memory, booking, readThrows, writeThrows) ==
    LET data == getBookingsFromStorage(available, item, memory, readThrows)
        r == saveBooking(available, item, memory, booking, readThrows, writeThrows)
    IN  tryCatch(findThrows(data.bookings, booking.bookingId),
                 [success |-> r.success,
                  message |-> IF ~r.success THEN "Unable to save booking. Please try again."
                              ELSE IF r.updated THEN "Booking updated successfully!"
                              ELSE "Booking created successfully!",
                  item |-> r.item, memory |-> r.memory],
                 [success |-> FALSE,
                  message |-> "Unable to save booking. Please try again.",
                  item |-> itemAfterLoad(available, item, readThrows),
                  memory |-> memory])

callDeleteBooking(available, item, memory, bookingId, readThrows, writeThrows) ==
    LET data == getBookingsFromStorage(available, item, memory, readThrows)
        r == deleteBooking(available, item, memory, bookingId, readThrows, writeThrows)
    IN  tryCatch(filterThrows(data.bookings),
                 [success |-> r.success,
                  message |-> IF ~r.found THEN "Booking not found."
                              ELSE IF r.success THEN "Booking cancelled successfully!"
                              ELSE "Unable to cancel booking.",
                  item |-> r.item, memory |-> r.memory],
                 [success |-> FALSE,
                  message |-> "Unable to cancel booking. Please try again.",
                  item |-> itemAfterLoad(available, item, readThrows),
                  memory |-> memory])

callUpdateBoardingStatus(available, item, memory, bookingId, status, readThrows, writeThrows) ==
    LET data == getBookingsFromStorage(available, item, memory, readThrows)
        r == updateBoardingStatus(available, item, memory, bookingId, status,
                                  readThrows, writeThrows)
    IN  tryCatch(findThrows(data.bookings, bookingId),
                 [success |-> r.success,
                  message |-> IF ~r.found THEN "Booking not found."
                              ELSE IF r.success THEN "Boarding status updated!"
                              ELSE "Unable to update status.",
                  item |-> r.item, memory |-> r.memory],
                 [success |-> FALSE,
                  message |-> "Unable to update status. Please try again.",
                  item |-> itemAfterLoad(available, item, readThrows),
                  memory |-> memory])

callGetBookingsByDate(available, item, memory, date, readThrows) ==
    LET data == getBookingsFromStorage(available, item, memory, readThrows)
    IN  tryCatch(filterThrows(data.bookings), getBookingsByDate(data, date), <<>>)

callGetBookingsByMobileAndDate(available, item, memory, mobileNumber, date, excludeBookingId, readThrows) ==
    LET data == getBookingsFromStorage(available, item, memory, readThrows)
    IN  tryCatch(filterThrows(data.bookings),
                 getBookingsByMobileAndDate(data, mobileNumber, date, excludeBookingId),
                 <<>>)

\* getBookedSeatsByDate works on what getBookingsByDate returned or raised
callGetBookedSeatsByDate(available, item, memory, date, excludeBookingId, readThrows) ==
    LET inner == callGetBookingsByDate(available, item, memory, date, readThrows)
    IN  IF inner.raised THEN tryCatch(TRUE, <<>>, <<>>)
        ELSE tryCatch(filterThrows(inner.returned),
                      flatSeats(SelectSeq(inner.returned,
                                          LAMBDA b : b.bookingId # excludeBookingId)),
                      <<>>)

callGetSeatsCountByMobileAndDate(available, item, memory, mobileNumber, date, excludeBookingId, readThrows) ==
    LET inner == callGetBookingsByMobileAndDate(available, item, memory, mobileNumber,
                                                date, excludeBookingId, readThrows)
    IN  IF inner.raised THEN tryCatch(TRUE, 0, 0)
        ELSE tryCatch(filterThrows(inner.returned), sumSeats(inner.returned), 0)

callGetNextBookingNumber(available, item, memory, readThrows) ==
    tryCatch(FALSE, getNextBookingNumber(available, item, memory, readThrows), 1)

\* generateBookingId has no try of its own: it raises what
\* getNextBookingNumber raises
callGenerateBookingId(available, item, memory, date, readThrows) ==
    LET inner == callGetNextBookingNumber(available, item, memory, readThrows)
    IN  IF inner.raised THEN [raised |-> TRUE]
        ELSE [raised |-> FALSE, returned |-> BookingIdOf(date, inner.returned)]

\* removeThrows: localStorage.removeItem throws
callClearAllBookings(item, removeThrows) ==
    tryCatch(removeThrows,
             [success |-> TRUE, item |-> clearAllBookings(item)],
             [success |-> FALSE, item |-> item])

(***************************************************************************)
(* Specification SpecSurface: the public operations on every behaviour of  *)
(* the persistence surface.  result.raised records whether the call        *)
(* raised, result.returned what it returned.                               *)
(***************************************************************************)
SurfaceBookings == {b \in RepoBookings : b.seats = <<A1>>}
SurfaceStatuses == {BOARDING_STATUS.NOT_BOARDED, BOARDING_STATUS.BOARDED}

SurfaceItems ==
    {AbsentItem, MalformedItem, UnparseableItem, ForeignItem}
    \cup {JSONstringify([bookings |-> <<b>>,
                         lastBookingNumber |-> bookingNumberOf(b.bookingId)]) :
              b \in SurfaceBookings}

SurfaceInit ==
    /\ localStorageAvailable \in BOOLEAN
    /\ localStorageItem \in (IF localStorageAvailable THEN SurfaceItems ELSE {AbsentItem})
    /\ inMemoryStore = EmptyStore
    /\ result = NoResult
    /\ now = 0
    /\ UIInit
    /\ HistInit
    /\ tabs = <<>>

\* what a call that changes the store leaves behind, and what it returned
SurfaceWrite(op, r) ==
    /\ localStorageItem' = (IF r.raised THEN localStorageItem ELSE r.returned.item)
    /\ inMemoryStore' = (IF r.raised THEN inMemoryStore ELSE r.returned.memory)
    /\ result' = IF r.raised THEN [op |-> op, raised |-> TRUE]
                 ELSE [op |-> op, raised |-> FALSE,
                       returned |-> [success |-> r.returned.success,
                                     message |-> r.returned.message]]
    /\ UNCHANGED <<localStorageAvailable, now, uiVars, tabs, histVars>>

\* a call that reads: getBookingsFromStorage removes an item of another shape
SurfaceRead(op, r, readThrows) ==
    /\ localStorageItem' = itemAfterLoad(localStorageAvailable, localStorageItem, readThrows)
    /\ result' = IF r.raised THEN [op |-> op, raised |-> TRUE]
                 ELSE [op |-> op, raised |-> FALSE, returned |-> r.returned]
    /\ UNCHANGED <<localStorageAvailable, inMemoryStore, now, uiVars, tabs, histVars>>

SurfaceSaveBooking(booking, readThrows, writeThrows) ==
    SurfaceWrite("saveBooking",
                 callSaveBooking(localStorageAvailable, localStorageItem, inMemoryStore,
                                 booking, readThrows, writeThrows))

SurfaceDeleteBooking(bookingId, readThrows, writeThrows) ==
    SurfaceWrite("deleteBooking",
                 callDeleteBooking(localStorageAvailable, localStorageItem, inMemoryStore,
                                   bookingId, readThrows, writeThrows))

SurfaceUpdateBoardingStatus(bookingId, status, readThrows, writeThrows) ==
    SurfaceWrite("updateBoardingStatus",
                 callUpdateBoardingStatus(localStorageAvailable, localStorageItem,
                                          inMemoryStore, bookingId, status,
                                          readThrows, writeThrows))

SurfaceGetBookingsByDate(date, readThrows) ==
    SurfaceRead("getBookingsByDate",
                callGetBookingsByDate(localStorageAvailable, localStorageItem,
                                      inMemoryStore, date, readThrows),
                readThrows)

SurfaceGetBookingsByMobileAndDate(mobileNumber, date, excludeBookingId, readThrows) ==
    SurfaceRead("getBookingsByMobileAndDate",
                callGetBookingsByMobileAndDate(localStorageAvailable, localStorageItem,
                                               inMemoryStore, mobileNumber, date,
                                               excludeBookingId, readThrows),
                readThrows)

SurfaceGetBookedSeatsByDate(date, excludeBookingId, readThrows) ==
    SurfaceRead("getBookedSeatsByDate",
                callGetBookedSeatsByDate(localStorageAvailable, localStorageItem,
                                         inMemoryStore, date, excludeBookingId, readThrows),
                readThrows)

SurfaceGetSeatsCountByMobileAndDate(mobileNumber, date, excludeBookingId, readThrows) ==
    SurfaceRead("getSeatsCountByMobileAndDate",
                callGetSeatsCountByMobileAndDate(localStorageAvailable, localStorageItem,
                                                 inMemoryStore, mobileNumber, date,
                                                 excludeBookingId, readThrows),
                readThrows)

SurfaceGenerateBookingId(date, readThrows) ==
    SurfaceRead("generateBookingId",
                callGenerateBookingId(localStorageAvailable, localStorageItem,
                                      inMemoryStore, date, readThrows),
                readThrows)

\* without a usable localStorage removeItem throws as well
SurfaceClearAllBookings(removeThrows) ==
    LET r == callClearAllBookings(localStorageItem,
                                  removeThrows \/ ~localStorageAvailable)
    IN  /\ localStorageItem' = (IF r.raised THEN localStorageItem ELSE r.returned.item)
        /\ result' = IF r.raised THEN [op |-> "clearAllBookings", raised |-> TRUE]
                     ELSE [op |-> "clearAllBookings", raised |-> FALSE,
                           returned |-> r.returned.success]
        /\ UNCHANGED <<localStorageAvailable, inMemoryStore, now, uiVars, tabs, histVars>>

SurfaceNext ==
    \/ \E b \in SurfaceBookings, rt \in Faults, wt \in Faults : SurfaceSaveBooking(b, rt, wt)
    \/ \E id \in RepoIds, rt \in Faults, wt \in Faults : SurfaceDeleteBooking(id, rt, wt)
    \/ \E id \in RepoIds, st \in SurfaceStatuses, rt \in Faults, wt \in Faults :
          SurfaceUpdateBoardingStatus(id, st, rt, wt)
    \/ \E d \in RepoDates, rt \in Faults : SurfaceGetBookingsByDate(d, rt)
    \/ \E d \in RepoDates, id \in RepoIds \cup {NoId}, rt \in Faults :
          SurfaceGetBookingsByMobileAndDate(Mobile1, d, id, rt)
    \/ \E d \in RepoDates, id \in RepoIds \cup {NoId}, rt \in Faults :
          SurfaceGetBookedSeatsByDate(d, id, rt)
    \/ \E d \in RepoDates, id \in RepoIds \cup {NoId}, rt \in Faults :
          SurfaceGetSeatsCountByMobileAndDate(Mobile1, d, id, rt)
    \/ \E d \in RepoDates, rt \in Faults : SurfaceGenerateBookingId(d, rt)
    \/ \E removeThrows \in BOOLEAN : SurfaceClearAllBookings(removeThrows)
    \/ \E item \in {MalformedItem, UnparseableItem, ForeignItem} : EnvDamageItem(item)

SpecSurface == SurfaceInit /\ [][SurfaceNext]_vars

(***************************************************************************)
(* Specification SpecBoard: the page with the boarding list, where the     *)
(* status button of a listed booking can be pressed at any time, also      *)
(* while the booking is being edited.                                      *)
(***************************************************************************)
\* the status button of a row: handleToggleBoardingStatus(booking.bookingId,
\* booking.boardingStatus), then loadBookings
HandleToggleBoardingStatus(booking) ==
    LET newStatus == IF booking.boardingStatus = "boarded" THEN "not_boarded"
                     ELSE "boarded"
        r == updateBoardingStatus(localStorageAvailable, localStorageItem, inMemoryStore,
                                  booking.bookingId, newStatus, FALSE, FALSE)
        saved == getBookingsFromStorage(localStorageAvailable, r.item, r.memory, FALSE)
    IN  /\ Includes(bookings, booking)
        /\ localStorageItem' = r.item
        /\ inMemoryStore' = r.memory
        /\ result' = [op |-> "handleToggleBoardingStatus", success |-> r.success]
        /\ bookings' = IF r.success THEN getBookingsByDate(saved, selectedDate) ELSE bookings
        /\ UNCHANGED <<localStorageAvailable, now, selectedDate, formData, selectedSeats,
                       editingBooking, pendingSubmit, tabs, histVars>>

\* no mobile number is typed: the form is valid only while a booking is
\* edited, and no booking is created
BoardNext ==
    \/ \E date \in Dates : HandleDateChange(date)
    \/ \E seatId \in UISeats : HandleSeatClick(seatId)
    \/ \E i \in 1..Len(bookings) : StartEditBooking(bookings[i])
    \/ CancelEditBooking
    \/ HandleSubmit
    \/ SubmitTimerFires
    \/ \E i \in 1..Len(bookings) : HandleDeleteBooking(bookings[i].bookingId)
    \/ \E i \in 1..Len(bookings) : HandleToggleBoardingStatus(bookings[i])

SpecBoard == Init /\ [][BoardNext]_vars

(***************************************************************************)
(* Specification SpecSeats: the seat map of the form.  The user clicks the *)
(* first MaxClickSeats seats of the bus, changes the date, starts and      *)
(* cancels the edit of a listed booking; nothing is submitted.             *)
(***************************************************************************)
ClickSeats == {seatAt(k) : k \in 1..MaxClickSeats}

SeatsNext ==
    \/ \E date \in Dates : HandleDateChange(date)
    \/ \E seatId \in ClickSeats : HandleSeatClick(seatId)
    \/ \E i \in 1..Len(bookings) : StartEditBooking(bookings[i])
    \/ CancelEditBooking

SpecSeats == Init /\ [][SeatsNext]_vars

(***************************************************************************)
(* Properties of the repository.                                           *)
(***************************************************************************)
Range(seq) == {seq[i] : i \in 1..Len(seq)}
Ids(store) == {store.bookings[i].bookingId : i \in 1..Len(store.bookings)}
StoredSomewhere == {localStorageItem.data, inMemoryStore}

RepoCreates ==
    \E d \in RepoDates, s \in RepoSeatLists, rt \in BOOLEAN, wt \in BOOLEAN :
        RepoCreateBooking(d, s, rt, wt)

\* C4: the number in the id of a successfully created booking is greater
\* than the number of the booking created before it, whatever happened to
\* the store in between (updates, deletions, loads that reset a damaged item).
C4_CreatedNumbersIncrease ==
    [][(RepoCreates /\ result'.success) => lastCreated' > lastCreated]_vars

\* C5: lastBookingNumber is at least the number in the id of every stored
\* booking, and it never decreases from one store state to the next.
C5_LastNumberBoundsAndNeverDecreases ==
    [][/\ \A id \in Ids(CurrentStore') :
            bookingNumberOf(id) <= CurrentStore'.lastBookingNumber
       /\ CurrentStore'.lastBookingNumber >= CurrentStore.lastBookingNumber]_vars

\* C6: the bookingIds of the stored bookings are pairwise distinct.
C6_BookingIdsDistinct ==
    \A store \in StoredSomewhere :
        \A i, j \in 1..Len(store.bookings) :
            store.bookings[i].bookingId = store.bookings[j].bookingId => i = j

C6_Witness ==
    /\ result = [op |-> "saveBooking", success |-> TRUE]
    /\ Len(CurrentStore.bookings) = 2

\* C8: a saveBooking whose write is rejected returns success = false and
\* leaves the persisted store as it was: the same bookings, the same
\* lastBookingNumber (an item of unexpected shape was removed by the load).
C8_RejectedWriteChangesNothing ==
    [][\A b \in RepoBookings, rt \in BOOLEAN :
          (/\ localStorageAvailable
           /\ result'.op = "saveBooking"
           /\ RepoSaveBooking(b, rt, TRUE)) =>
              /\ result'.success = FALSE
              /\ CurrentStore' = CurrentStore
              /\ localStorageItem' = itemAfterLoad(TRUE, localStorageItem, rt)
              /\ localStorageItem.kind # "malformed" => localStorageItem' = localStorageItem
              /\ inMemoryStore' = inMemoryStore]_vars

C8_Witness ==
    /\ result = [op |-> "saveBooking", success |-> FALSE]
    /\ Len(CurrentStore.bookings) > 0

\* C9: when the read of the persisted item throws, saveBooking, deleteBooking
\* and updateBoardingStatus leave every previously persisted booking in place.
C9_ThrowingReadKeepsBookings ==
    [][\A b \in RepoBookings, wt \in BOOLEAN :
          (/\ localStorageAvailable
           /\ result'.op \in {"saveBooking", "deleteBooking", "updateBoardingStatus"}
           /\ \/ RepoSaveBooking(b, TRUE, wt)
              \/ RepoDeleteBooking(b.bookingId, TRUE, wt)
              \/ \E st \in {BOARDING_STATUS.NOT_BOARDED, BOARDING_STATUS.BOARDED} :
                    RepoUpdateBoardingStatus(b.bookingId, st, TRUE, wt))
          => \A old \in Range(localStorageItem.data.bookings) :
                old.bookingId # b.bookingId =>
                    old \in Range(localStorageItem'.data.bookings)]_vars

\* C10: saveBooking of a stored id replaces that record where it stands and
\* changes nothing else; saveBooking of an id that is not stored appends the
\* booking and makes lastBookingNumber the larger of itself and the id's number.
C10_SaveReplacesOrAppends ==
    [][\A d \in RepoDates, n \in 1..MaxSeq, b \in RepoBookings :
          (/\ result'.op = "saveBooking"
           /\ b.bookingId = BookingIdOf(d, n)
           /\ RepoSaveBooking(b, FALSE, FALSE)) =>
              LET old == CurrentStore
                  new == CurrentStore'
                  at == {i \in 1..Len(old.bookings) : old.bookings[i].bookingId = b.bookingId}
              IN  /\ result' = [op |-> "saveBooking", success |-> TRUE]
                  /\ at # {} =>
                        /\ Len(new.bookings) = Len(old.bookings)
                        /\ \A i \in 1..Len(old.bookings) :
                              new.bookings[i] = IF i \in at THEN b ELSE old.bookings[i]
                        /\ new.lastBookingNumber = old.lastBookingNumber
                  /\ at = {} =>
                        /\ new.bookings = old.bookings \o <<b>>
                        /\ new.lastBookingNumber = Max(old.lastBookingNumber, n)]_vars

C10_Witness ==
    /\ result = [op |-> "saveBooking", success |-> TRUE]
    /\ Len(CurrentStore.bookings) = 2
    /\ bookingNumberOf(CurrentStore.bookings[2].bookingId) < CurrentStore.lastBookingNumber

\* C11: deleteBooking of an id that is not stored returns a failure and
\* leaves the store as it was; of a stored id it removes that booking only,
\* keeps the others in their order and keeps lastBookingNumber.  A call
\* whose read throws or whose write is rejected fails and changes nothing.
C11_DeleteRemovesExactlyOne ==
    [][\A id \in RepoIds, rt \in Faults, wt \in Faults :
          (/\ result'.op = "deleteBooking"
           /\ RepoDeleteBooking(id, rt, wt)) =>
              LET old == CurrentStore
                  new == CurrentStore'
              IN  IF id \in Ids(old) /\ ~rt /\ ~wt
                  THEN /\ result'.success = TRUE
                       /\ new.bookings = SelectSeq(old.bookings,
                                                   LAMBDA b : b.bookingId # id)
                       /\ Len(new.bookings) = Len(old.bookings) - 1
                       /\ new.lastBookingNumber = old.lastBookingNumber
                  ELSE /\ result'.success = FALSE
                       /\ new = old]_vars

C11_Witness ==
    /\ result = [op |-> "deleteBooking", success |-> TRUE]
    /\ Len(CurrentStore.bookings) = 1
    /\ CurrentStore.lastBookingNumber = 2

\* C12: generateBookingId returns the id numbered lastBookingNumber + 1 and
\* leaves the store as it was; lastBookingNumber grows only in a step that
\* successfully saves a booking whose id was not stored.
C12_GenerateReadsOnly ==
    [][/\ \A d \in RepoDates, rt \in Faults :
            (/\ result'.op = "generateBookingId"
             /\ RepoGenerateBookingId(d, rt)) =>
                /\ result'.bookingId =
                       BookingIdOf(d, CurrentStore.lastBookingNumber + 1)
                /\ CurrentStore' = CurrentStore
       /\ CurrentStore'.lastBookingNumber > CurrentStore.lastBookingNumber =>
            /\ result'.op \in {"saveBooking", "createBooking"}
            /\ result'.success
            /\ \E id \in Ids(CurrentStore') : id \notin Ids(CurrentStore)]_vars

\* C13: with an item that does not parse or has not the expected shape, the
\* load returns the empty store, and the operation called next returns the
\* result it returns on an empty store; the item of unexpected shape is gone.
DamagedItem == localStorageAvailable /\ localStorageItem.kind \in {"malformed", "unparseable"}

C13_DamagedItemReadsAsEmpty ==
    [][(/\ DamagedItem
        /\ result'.op \in {"saveBooking", "createBooking", "deleteBooking",
                          "updateBoardingStatus", "generateBookingId"}) =>
           /\ CurrentStore = EmptyStore
           /\ result'.success \in BOOLEAN
           /\ localStorageItem'.kind # "malformed"
           /\ result'.op \in {"deleteBooking", "updateBoardingStatus"} =>
                 ~result'.success /\ CurrentStore' = EmptyStore
           /\ result'.op \in {"saveBooking", "createBooking"} =>
                 /\ result'.success
                 /\ Len(CurrentStore'.bookings) = 1
                 /\ CurrentStore'.lastBookingNumber =
                        bookingNumberOf(CurrentStore'.bookings[1].bookingId)
           /\ result'.op = "generateBookingId" =>
                 /\ bookingNumberOf(result'.bookingId) = 1
                 /\ CurrentStore' = EmptyStore]_vars

C13_Witness ==
    /\ localStorageItem.kind = "unparseable"
    /\ result = [op |-> "deleteBooking", success |-> FALSE]

\* C14: given the same calls, the repository on the in-memory store returns
\* what the repository on a working localStorage returns, and both hold the
\* same bookings and the same lastBookingNumber.
C14_FallbackBehavesAsPersisted ==
    /\ result.fallback = result.persisted
    /\ inMemoryStore = getBookingsFromStorage(TRUE, localStorageItem, EmptyStore, FALSE)

C14_Witness ==
    /\ result.op = "read"
    /\ result.fallback.seatsCount = 3
    /\ bookingNumberOf(result.fallback.bookingId) = 3
    /\ Len(inMemoryStore.bookings) = 2

\* C15: after a saveBooking(b) that returned success, the loaded store has
\* exactly one booking with b's bookingId, it equals b field by field, and
\* getBookingsByDate(b.travelDate) contains it.
C15_SavedBookingReadsBack ==
    [][\A b \in RepoBookings, rt \in Faults, wt \in Faults :
          (/\ result'.op = "saveBooking"
           /\ result'.success
           /\ RepoSaveBooking(b, rt, wt)) =>
              LET at == {i \in 1..Len(CurrentStore'.bookings) :
                            CurrentStore'.bookings[i].bookingId = b.bookingId}
              IN  /\ Cardinality(at) = 1
                  /\ \A i \in at :
                        LET loaded == CurrentStore'.bookings[i]
                        IN  /\ loaded.travelDate = b.travelDate
                            /\ loaded.mobileNumber = b.mobileNumber
                            /\ loaded.seats = b.seats
                            /\ loaded.bookingTime = b.bookingTime
                            /\ loaded.boardingStatus = b.boardingStatus
                  /\ Includes(getBookingsByDate(CurrentStore', b.travelDate), b)]_vars

C15_Witness ==
    /\ result = [op |-> "saveBooking", success |-> TRUE]
    /\ Len(CurrentStore.bookings) = 2
    /\ CurrentStore.bookings[1].seats = <<A1, B1>>
    /\ CurrentStore.bookings[1].boardingStatus = BOARDING_STATUS.NOT_BOARDED

(***************************************************************************)
(* Properties of the booking pipeline.                                     *)
(***************************************************************************)
\* C1: no seat is held by two different stored bookings of the same
\* travelDate, after any creations, updates and cancellations made through
\* the form and the list.
C1_SeatHeldOncePerDate ==
    \A i, j \in 1..Len(CurrentStore.bookings) :
        (/\ i # j
         /\ CurrentStore.bookings[i].travelDate = CurrentStore.bookings[j].travelDate)
        => \A seat \in Range(CurrentStore.bookings[i].seats) :
              ~Includes(CurrentStore.bookings[j].seats, seat)

\* C2: for every mobile number and travel date the stored bookings of that
\* pair hold at most six seats in total.
C2_SeatsPerMobileAndDateAtMostSix ==
    \A b \in Range(CurrentStore.bookings) :
        getSeatsCountByMobileAndDate(CurrentStore, b.mobileNumber, b.travelDate, NoId)
            <= MAX_SEATS_PER_BOOKING

\* C3: once a booking was cancelled, no booking with its id is in the store
\* again, whatever is created or saved afterwards.
C3_DeletedIdNeverStoredAgain ==
    \A bookingId \in deletedIds : bookingId \notin Ids(CurrentStore)

(***************************************************************************)
(* Properties of two callers on one item.                                  *)
(***************************************************************************)
\* a save this caller was told succeeded is not in the persisted item
Lost(t) ==
    \E k \in 1..Len(tabs[t].acked) :
        ~Includes(localStorageItem.data.bookings, tabs[t].acked[k])

\* C7: two callers interleaving generate-id, read and write reach a state
\* where both were told their save succeeded and the item holds only one of
\* them; a confirmed save is missing only when some write was made from an
\* id or a copy obtained before another caller's write.
C7_LostUpdateNeedsInterleaving ==
    (\E t \in Callers : Lost(t)) => \E u \in Callers : tabs[u].stale

C7_Witness ==
    /\ \A t \in Callers : tabs[t].pc = "idle" /\ Len(tabs[t].acked) = 1
    /\ Lost(1)
    /\ ~Lost(2)
    /\ Len(localStorageItem.data.bookings) = 1

(***************************************************************************)
(* Properties of validateBookingForm.                                      *)
(***************************************************************************)
Validated == result.op = "validateBookingForm"

\* a selected seat is among the booked seats passed in
SelectsBookedSeat ==
    \E seat \in Range(result.candidate.seats) : Includes(result.bookedSeats, seat)

\* C16: every rule that a candidate violates gives an error for its field,
\* whatever the other rules say: mobile number, travel date, number of
\* seats, seats already booked, seats of the mobile number on the date.
C16_EveryViolatedRuleReported ==
    Validated =>
        LET c == result.candidate
        IN  /\ ~validateMobileNumber(c.mobileNumber).isValid =>
                  result.errors.mobileNumber # ""
            /\ ~validateTravelDate(c.travelDate).isValid =>
                  result.errors.travelDate # ""
            /\ ~validateSeatSelection(c.seats).isValid => result.errors.seats # ""
            /\ (\E seat \in Range(c.seats) :
                   /\ Includes(result.bookedSeats, seat)
                   /\ ~Includes(c.currentSeats, seat)) => result.errors.seats # ""
            /\ Len(c.seats) + result.existingSeatsCount > MAX_SEATS_PER_BOOKING =>
                  result.errors.seats # ""

C18_CapRule ==
    Validated =>
        LET selected == Len(result.candidate.seats)
            already == result.existingSeatsCount
            limit == result.limitCheck
        IN  /\ limit.isValid <=> selected + already <= 6
            /\ ~limit.isValid =>
                  /\ limit.error = "SAME_MOBILE_LIMIT"
                  /\ limit.booked = already
                  /\ limit.remaining = Max(6 - already, 0)
            /\ (/\ ~limit.isValid
                /\ result.errors.mobileNumber = ""
                /\ result.errors.travelDate = ""
                /\ validateSeatSelection(result.candidate.seats).isValid
                /\ ~SelectsBookedSeat) => result.errors.seats = "SAME_MOBILE_LIMIT"
            /\ (limit.isValid /\ result.success) => result.errors.seats = ""

C18_Witness ==
    /\ Validated
    /\ result.existingSeatsCount = 4
    /\ Len(result.candidate.seats) = 3
    /\ result.errors.seats = "SAME_MOBILE_LIMIT"
    /\ result.limitCheck.booked = 4
    /\ result.limitCheck.remaining = 2

\* C19: the call leaves the candidate's mobileNumber as it was when it
\* reports an error, and replaces it by the cleaned ten digits when the
\* candidate is valid.
C19_CandidateChangedOnSuccessOnly ==
    Validated =>
        /\ result.success =>
              result.mobileNumber = cleanNumber(result.candidate.mobileNumber)
        /\ ~result.success => result.mobileNumber = result.candidate.mobileNumber

(***************************************************************************)
(* Properties of the edit flow.                                            *)
(***************************************************************************)
\* the bookingTime a booking got when it was created
CreatedAt(bookingId) ==
    IF \E c \in created : c.bookingId = bookingId
    THEN (CHOOSE c \in created : c.bookingId = bookingId).bookingTime
    ELSE EarlierBooking.bookingTime

\* C20: every stored booking carries an id that was assigned at a creation
\* and the bookingTime of that creation, however many updates of seats and
\* travel date the edit flow saved; a saved update adds no id but the edited
\* one; a newly created booking is stored as not_boarded with the time of
\* its creation.
C20_UpdateKeepsIdAndTime ==
    /\ [](/\ \A i \in 1..Len(CurrentStore.bookings) :
                LET b == CurrentStore.bookings[i]
                IN  /\ \/ \E c \in created : c.bookingId = b.bookingId
                       \/ b.bookingId = EarlierBooking.bookingId
                    /\ b.bookingTime = CreatedAt(b.bookingId)
          /\ \A c1, c2 \in created :
                c1.bookingId = c2.bookingId => c1.bookingTime = c2.bookingTime)
    /\ [][(result'.op = "handleCreateBooking" /\ result'.success /\ SubmitTimerFires) =>
            LET old == CurrentStore
                new == CurrentStore'
                edited == pendingSubmit.editingBooking
            IN  IF edited # NoBooking
                THEN /\ Ids(new) = Ids(old) \cup {edited.bookingId}
                     /\ \E i \in 1..Len(new.bookings) :
                           /\ new.bookings[i].bookingId = edited.bookingId
                           /\ new.bookings[i].bookingTime = edited.bookingTime
                           /\ new.bookings[i].seats = pendingSubmit.selectedSeats
                           /\ new.bookings[i].travelDate = pendingSubmit.formData.travelDate
                ELSE \E i \in 1..Len(new.bookings) :
                           /\ new.bookings[i].bookingId \notin Ids(old)
                           /\ new.bookings[i].boardingStatus = BOARDING_STATUS.NOT_BOARDED
                           /\ new.bookings[i].bookingTime = now]_vars

\* the booking of the earlier visit was moved to tomorrow by an update saved
\* at time 2: it keeps the id of 2026-11-01 and the bookingTime 0
C20_Witness ==
    /\ result = [op |-> "handleCreateBooking", success |-> TRUE]
    /\ now >= 2
    /\ \E i \in 1..Len(CurrentStore.bookings) :
          /\ CurrentStore.bookings[i].bookingId = EarlierBooking.bookingId
          /\ CurrentStore.bookings[i].travelDate = Tomorrow
          /\ CurrentStore.bookings[i].seats = <<A1>>
          /\ CurrentStore.bookings[i].bookingTime = 0

(***************************************************************************)
(* Properties of the boarding planner and of the list queries.             *)
(***************************************************************************)
\* the ids of a list of bookings, in its order
IdsInOrder(array) == [i \in 1..Len(array) |-> bookingNumberOf(array[i].bookingId)]

\* (farthestRow, seatsInFarthestRow, totalSeats) of a booking, from its seats
FarthestRowOf(booking) ==
    CHOOSE r \in 0..SEAT_ROWS :
        /\ \A i \in 1..Len(booking.seats) : booking.seats[i].row <= r
        /\ r = 0 \/ \E i \in 1..Len(booking.seats) : booking.seats[i].row = r
SeatsInFarthestRowOf(booking) ==
    Cardinality({i \in 1..Len(booking.seats) :
                    booking.seats[i].row = FarthestRowOf(booking)})

\* tuple a is lexicographically greater than tuple b
TupleGreater(a, b) ==
    \/ a[1] > b[1]
    \/ a[1] = b[1] /\ a[2] > b[2]
    \/ a[1] = b[1] /\ a[2] = b[2] /\ a[3] > b[3]
BoardingTuple(booking) ==
    <<FarthestRowOf(booking), SeatsInFarthestRowOf(booking), Len(booking.seats)>>

\* C21: in the output of calculateOptimalBoardingSequence every booking is
\* followed by one whose tuple (farthestRow, seatsInFarthestRow, totalSeats)
\* is lexicographically smaller, or equal with a bookingId that is not
\* smaller.
C21_OptimalOrder ==
    result.op = "getSortedFilteredBookings" =>
        \A k \in 1..(Len(result.optimalBookings) - 1) :
            LET a == result.optimalBookings[k]
                b == result.optimalBookings[k + 1]
            IN  \/ TupleGreater(BoardingTuple(a), BoardingTuple(b))
                \/ /\ BoardingTuple(a) = BoardingTuple(b)
                   /\ localeCompare(idString(a.bookingId), idString(b.bookingId)) <= 0

\* farthest rows 3, 10 (one seat there), 10 (two seats there), 15 come out as
\* 15, 10 with two, 10 with one, 3
C21_Witness ==
    /\ result.op = "getSortedFilteredBookings"
    /\ IdsInOrder(bookings) = <<4, 2, 3, 1>>
    /\ IdsInOrder(result.optimalBookings) = <<1, 3, 2, 4>>

\* C22: the output of calculateOptimalBoardingSequence holds each booking of
\* the input once, with its fields, and nothing else; the k-th element has
\* sequenceNumber k; the array passed in is in its original order afterwards.
C22_OptimalIsNumberedPermutation ==
    result.op = "getSortedFilteredBookings" =>
        LET out == result.optimalBookings
        IN  /\ Len(out) = Len(bookings)
            /\ \A i \in 1..Len(bookings) :
                  Cardinality({k \in 1..Len(out) :
                                  /\ out[k].bookingId = bookings[i].bookingId
                                  /\ out[k].seats = bookings[i].seats
                                  /\ out[k].mobileNumber = bookings[i].mobileNumber
                                  /\ out[k].travelDate = bookings[i].travelDate
                                  /\ out[k].bookingTime = bookings[i].bookingTime
                                  /\ out[k].boardingStatus = bookings[i].boardingStatus}) = 1
            /\ \A k \in 1..Len(out) : out[k].sequenceNumber = k
            /\ result.bookings = bookings

C22_Witness ==
    /\ result.op = "getSortedFilteredBookings"
    /\ IdsInOrder(bookings) = <<5, 4, 1>>
    /\ IdsInOrder(result.optimalBookings) = <<1, 4, 5>>
    /\ result.optimalBookings[3].sequenceNumber = 3

\* the sort key of a column, compared: negative, zero or positive
FirstSeatOf(booking) ==
    CHOOSE s \in {seatString(booking.seats[i]) : i \in 1..Len(booking.seats)} :
        \A i \in 1..Len(booking.seats) : localeCompare(s, seatString(booking.seats[i])) <= 0
KeyCompare(column, a, b) ==
    CASE column = "sequence" -> a.sequenceNumber - b.sequenceNumber
      [] column = "bookingId" -> localeCompare(idString(a.bookingId), idString(b.bookingId))
      [] column = "seats" -> localeCompare(FirstSeatOf(a), FirstSeatOf(b))
      [] column = "mobile" -> localeCompare(a.mobileNumber, b.mobileNumber)

\* C26: sortBookingsByColumn returns the bookings it was given, each once,
\* ascending by the key of the column ('desc': descending); bookings with
\* equal keys stay in the order they were given in; the array passed in is
\* unchanged.
C26_SortByColumn ==
    result.op = "getSortedFilteredBookings" =>
        LET in == result.processedBookings
            out == result.sortedFilteredBookings
            position(x) == CHOOSE i \in 1..Len(in) : in[i] = x
        IN  /\ Len(out) = Len(in)
            /\ \A i \in 1..Len(in) : Cardinality({k \in 1..Len(out) : out[k] = in[i]}) = 1
            /\ \A k \in 1..(Len(out) - 1) :
                  LET c == KeyCompare(result.column, out[k], out[k + 1])
                  IN  /\ result.direction = "asc" => c <= 0
                      /\ result.direction = "desc" => c >= 0
                      /\ c = 0 => position(out[k]) < position(out[k + 1])
            /\ result.processedAfter = in

\* by mobile number, descending: the two bookings of 9876543210 come first,
\* in the order they were given in
C26_Witness ==
    /\ result.op = "getSortedFilteredBookings"
    /\ result.boardingMode = "natural"
    /\ result.column = "mobile"
    /\ result.direction = "desc"
    /\ IdsInOrder(bookings) = <<1, 3, 4, 2>>
    /\ IdsInOrder(result.sortedFilteredBookings) = <<3, 2, 1, 4>>

\* C27: getNextPassengerToBoard returns a booking that has not boarded and
\* whose sequenceNumber no other booking that has not boarded is below; it
\* returns none exactly when areAllPassengersBoarded is true, which is the
\* case for the empty list and when every booking has boarded.
C27_NextToBoard ==
    result.op = "getNextPassengerToBoard" =>
        LET list == result.sortedFilteredBookings
            waiting == {i \in 1..Len(list) :
                           list[i].boardingStatus # BOARDING_STATUS.BOARDED}
        IN  /\ result.allBoarded <=> waiting = {}
            /\ (result.next = NoBooking) <=> result.allBoarded
            /\ result.next # NoBooking =>
                  \E i \in waiting :
                      /\ list[i] = result.next
                      /\ \A j \in waiting : list[i].sequenceNumber <= list[j].sequenceNumber

\* the rows are shown by booking id, descending; the first in the sequence
\* has boarded, the next to board is the second of the sequence, shown last
C27_Witness ==
    /\ result.op = "getNextPassengerToBoard"
    /\ Len(result.sortedFilteredBookings) = 3
    /\ result.sortedFilteredBookings[1].boardingStatus = BOARDING_STATUS.NOT_BOARDED
    /\ result.sortedFilteredBookings[1].sequenceNumber = 3
    /\ result.next = result.sortedFilteredBookings[3]
    /\ result.next.sequenceNumber = 2

(***************************************************************************)
(* Properties of the summary.                                              *)
(***************************************************************************)
\* a / b * 100 rounded to the closest integer, halves upwards, in exact
\* arithmetic, for a >= 0 and b > 0
RoundedPercent(a, b) == (200 * a + b) \div (2 * b)

\* C23: for n >= 1 bookings the natural order takes 60 * n, the optimal order
\* 60, the savings are their difference and the percentage is
\* round(savings / natural * 100); for no bookings the three times are 0 and
\* the percentage is not a number.
C23_TimeModel ==
    result.op = "boardingSummary" =>
        LET n == Len(bookings)
        IN  /\ result.naturalTimeSeconds = 60 * n
            /\ result.optimalTime.optimalTimeSeconds = (IF n = 0 THEN 0 ELSE 60)
            /\ result.timeSavings.savingsSeconds =
                  result.naturalTimeSeconds - result.optimalTime.optimalTimeSeconds
            /\ result.timeSavings.savingsPercentage =
                  IF n = 0 THEN <<"N", "a", "N">>
                  ELSE toString(RoundedPercent(result.timeSavings.savingsSeconds,
                                               result.naturalTimeSeconds))

\* the statement as claimed: the optimal order takes 60 for every n
C23_OptimalAlwaysSixty ==
    result.op = "boardingSummary" =>
        /\ result.naturalTimeSeconds = 60 * Len(bookings)
        /\ result.optimalTime.optimalTimeSeconds = 60
        /\ result.timeSavings.savingsSeconds =
              result.naturalTimeSeconds - result.optimalTime.optimalTimeSeconds

\* 5 bookings: 300, 60, 240, 80%
C23_Witness ==
    /\ result.op = "boardingSummary"
    /\ Len(bookings) = 5
    /\ result.naturalTimeSeconds = 300
    /\ result.optimalTime.optimalTimeSeconds = 60
    /\ result.timeSavings.savingsSeconds = 240
    /\ result.timeSavings.savingsPercentage = <<"8", "0">>

\* C24: totalBookings is the length of the list, totalPassengers the number
\* of its seats, boardedPassengers the number of seats of its boarded
\* bookings, notBoardedPassengers the rest, and boardingProgress is
\* round(boardedPassengers / totalPassengers * 100), 0 without passengers.
C24_Statistics ==
    result.op = "boardingSummary" =>
        LET stats == result.boardingStats
            seatsOf(indices) ==
                Cardinality({<<i, k>> \in (1..Len(bookings)) \X (1..MAX_SEATS_PER_BOOKING) :
                                i \in indices /\ k <= Len(bookings[i].seats)})
            boarded == {i \in 1..Len(bookings) :
                           bookings[i].boardingStatus = BOARDING_STATUS.BOARDED}
        IN  /\ stats.totalBookings = Len(bookings)
            /\ stats.totalPassengers = seatsOf(1..Len(bookings))
            /\ stats.boardedPassengers = seatsOf(boarded)
            /\ stats.boardedPassengers + stats.notBoardedPassengers = stats.totalPassengers
            /\ stats.boardingProgress \in 0..100
            /\ stats.boardingProgress =
                  IF stats.totalPassengers = 0 THEN 0
                  ELSE RoundedPercent(stats.boardedPassengers, stats.totalPassengers)

(***************************************************************************)
(* Properties of the public operations as calls.                           *)
(***************************************************************************)
ResultMessages ==
    {"Unable to save booking. Please try again.", "Booking updated successfully!",
     "Booking created successfully!", "Booking not found.",
     "Booking cancelled successfully!", "Unable to cancel booking.",
     "Unable to cancel booking. Please try again.", "Boarding status updated!",
     "Unable to update status.", "Unable to update status. Please try again."}

\* C25: no public operation of the repository raises, whatever the item
\* holds and whether reads or writes throw: saveBooking, deleteBooking and
\* updateBoardingStatus return a result with success and message, the read
\* projections return an array or a count, generateBookingId returns an id.
C25_NoOperationRaises ==
    result.op \notin {"none", "damage"} =>
        /\ ~result.raised
        /\ result.op \in {"saveBooking", "deleteBooking", "updateBoardingStatus"} =>
              /\ result.returned.success \in BOOLEAN
              /\ result.returned.message \in ResultMessages
        /\ result.op \in {"getBookingsByDate", "getBookingsByMobileAndDate",
                          "getBookedSeatsByDate"} =>
              DOMAIN result.returned = 1..Len(result.returned)
        /\ result.op = "getSeatsCountByMobileAndDate" => result.returned \in Nat
        /\ result.op = "generateBookingId" =>
              /\ result.returned.prefix = BOOKING_ID_PREFIX
              /\ Len(result.returned.sequenceNumber) = 6
              /\ bookingNumberOf(result.returned) >= 1
        /\ result.op = "clearAllBookings" => result.returned \in BOOLEAN

\* the item holds bookings that are no objects: deleteBooking's filter
\* throws and the call returns its failure result
C25_Witness ==
    /\ result.op = "deleteBooking"
    /\ localStorageItem = ForeignItem
    /\ ~result.raised
    /\ ~result.returned.success
    /\ result.returned.message = "Unable to cancel booking. Please try again."

(***************************************************************************)
(* Properties of the boarding status.                                      *)
(***************************************************************************)
\* the boardingStatus the store holds for an id, as a set (empty: not stored)
StoredStatus(store, bookingId) ==
    {store.bookings[i].boardingStatus :
        i \in {j \in 1..Len(store.bookings) : store.bookings[j].bookingId = bookingId}}

\* C28: the save of an edit leaves the boardingStatus of the booking as it
\* was stored immediately before the save (stated for the store kept in
\* localStorage, where editingBooking is a copy of the stored record).
C28_EditKeepsBoardingStatus ==
    [][(/\ localStorageAvailable
        /\ pendingSubmit.armed
        /\ pendingSubmit.editingBooking # NoBooking
        /\ result'.op = "handleCreateBooking"
        /\ result'.success
        /\ StoredStatus(CurrentStore, pendingSubmit.editingBooking.bookingId) # {})
       => StoredStatus(CurrentStore', pendingSubmit.editingBooking.bookingId)
              = StoredStatus(CurrentStore, pendingSubmit.editingBooking.bookingId)]_vars

\* what the claim says of updateBoardingStatus(bookingId, status): before and
\* after are the store read back before and after the call
StatusOnlyChanged(before, after, success, bookingId, status) ==
    LET matching == {i \in 1..Len(before.bookings) :
                        before.bookings[i].bookingId = bookingId}
    IN  IF matching = {}
        THEN ~success /\ after = before
        ELSE /\ success
             /\ after.lastBookingNumber = before.lastBookingNumber
             /\ Len(after.bookings) = Len(before.bookings)
             /\ \A i \in 1..Len(before.bookings) :
                   /\ after.bookings[i].bookingId = before.bookings[i].bookingId
                   /\ after.bookings[i].seats = before.bookings[i].seats
                   /\ after.bookings[i].mobileNumber = before.bookings[i].mobileNumber
                   /\ after.bookings[i].travelDate = before.bookings[i].travelDate
                   /\ after.bookings[i].bookingTime = before.bookings[i].bookingTime
                   /\ after.bookings[i].boardingStatus =
                         IF i \in matching THEN status
                         ELSE before.bookings[i].boardingStatus

\* the store after the status of a stored booking was toggled twice
ToggledTwice(bookingId) ==
    LET i == findIndex(CurrentStore.bookings, bookingId)
        original == CurrentStore.bookings[i].boardingStatus
        other == IF original = BOARDING_STATUS.BOARDED THEN BOARDING_STATUS.NOT_BOARDED
                 ELSE BOARDING_STATUS.BOARDED
        first == updateBoardingStatus(localStorageAvailable, localStorageItem,
                                      inMemoryStore, bookingId, other, FALSE, FALSE)
        second == updateBoardingStatus(localStorageAvailable, first.item, first.memory,
                                       bookingId, original, FALSE, FALSE)
    IN  getBookingsFromStorage(localStorageAvailable, second.item, second.memory, FALSE)

C30_SelectionBounded ==
    /\ [](/\ Len(selectedSeats) <= MAX_SEATS_PER_BOOKING
          /\ \A i, j \in 1..Len(selectedSeats) :
                i # j => selectedSeats[i] # selectedSeats[j])
    /\ [][selectedSeats' # selectedSeats =>
             \/ \E i \in 1..Len(selectedSeats) :
                   selectedSeats' = SelectSeq(selectedSeats,
                                              LAMBDA x : x # selectedSeats[i])
             \/ /\ Len(selectedSeats) < MAX_SEATS_PER_BOOKING
                /\ \E seat \in ClickSeats :
                      /\ \A i \in 1..Len(selectedSeats) : selectedSeats[i] # seat
                      /\ selectedSeats' = Append(selectedSeats, seat)
             \/ selectedSeats' = <<>>
             \/ /\ editingBooking' # NoBooking
                /\ selectedSeats' = editingBooking'.seats]_vars

\* six seats are selected and a free seat is left to click: the click
\* changes nothing
C30_Witness ==
    /\ editingBooking = NoBooking
    /\ Len(selectedSeats) = MAX_SEATS_PER_BOOKING
    /\ \E seat \in ClickSeats :
          /\ ~isSeatDisabled(seat)
          /\ \A i \in 1..Len(selectedSeats) : selectedSeats[i] # seat
          /\ toggleSeat(selectedSeats, seat) = selectedSeats

=============================================================================
